---- MODULE Spec2Model ----
(***************************************************************************)
(* Model of the recipe-ingest pipeline (recipe_ingest.core.service,        *)
(* recipe_ingest.core.writer, recipe_ingest.core.formatter).               *)
(*                                                                         *)
(* Text is a sequence of symbols.  A symbol is one character ("a", " ",    *)
(* "\n", "-", "#", "*", ...) except for the fixed words the formatter      *)
(* emits ("Ingredients", "Instructions", "title", ...), which are one      *)
(* symbol each.  An optional value is a sequence of length 0 (None) or 1.  *)
(***************************************************************************)
EXTENDS Integers, Sequences, FiniteSets, Bags, TLC

(***************************************************************************)
(* Python str primitives on symbol sequences                               *)
(***************************************************************************)

\* str.isspace() of one character, as used by \s and str.strip()
IsSpace(c) == c \in {" ", "\n", "\t"}

\* str.lower() of one symbol
LowerSym(c) ==
    CASE c = "A" -> "a"
      [] c = "B" -> "b"
      [] c = "C" -> "c"
      [] c = "D" -> "d"
      [] c = "E" -> "e"
      [] c = "F" -> "f"
      [] c = "G" -> "g"
      [] c = "H" -> "h"
      [] c = "I" -> "i"
      [] c = "J" -> "j"
      [] c = "K" -> "k"
      [] c = "L" -> "l"
      [] c = "M" -> "m"
      [] c = "N" -> "n"
      [] c = "O" -> "o"
      [] c = "P" -> "p"
      [] c = "Q" -> "q"
      [] c = "R" -> "r"
      [] c = "S" -> "s"
      [] c = "T" -> "t"
      [] c = "U" -> "u"
      [] c = "V" -> "v"
      [] c = "W" -> "w"
      [] c = "X" -> "x"
      [] c = "Y" -> "y"
      [] c = "Z" -> "z"
      [] c = "Ingredients" -> "ingredients"
      [] c = "Instructions" -> "instructions"
      [] c = "Notes" -> "notes"
      [] OTHER -> c

\* str.lower()
Lower(s) == [i \in 1..Len(s) |-> LowerSym(s[i])]

\* s[i:] (1-based: the suffix that starts at position i)
From(s, i) == SubSeq(s, i, Len(s))

\* str.lstrip()
RECURSIVE LStrip(_)
LStrip(s) == IF s # <<>> /\ IsSpace(Head(s)) THEN LStrip(Tail(s)) ELSE s

\* str.rstrip()
RECURSIVE RStrip(_)
RStrip(s) ==
    IF s # <<>> /\ IsSpace(s[Len(s)]) THEN RStrip(SubSeq(s, 1, Len(s) - 1)) ELSE s

\* str.strip()
Strip(s) == RStrip(LStrip(s))

\* str.split("\n"): the list of lines, always at least one
RECURSIVE SplitLines(_)
SplitLines(s) ==
    LET nl == {i \in 1..Len(s) : s[i] = "\n"}
    IN  IF nl = {} THEN <<s>>
        ELSE LET i == CHOOSE k \in nl : \A j \in nl : k <= j
             IN  <<SubSeq(s, 1, i - 1)>> \o SplitLines(From(s, i + 1))

\* "".join(parts)
RECURSIVE Concat(_)
Concat(parts) == IF parts = <<>> THEN <<>> ELSE Head(parts) \o Concat(Tail(parts))

(***************************************************************************)
(* MarkdownFormatter                                                       *)
(***************************************************************************)

None == <<>>
Some(x) == <<x>>

\* yaml.dump of one string scalar: plain when it is safe, single-quoted
\* otherwise (leading/trailing space or a leading indicator character)
YamlScalar(s) ==
    IF s = <<>> \/ IsSpace(s[1]) \/ IsSpace(s[Len(s)]) \/ s[1] \in {"*", "#", "-", "?", ":"}
    THEN <<"'">> \o s \o <<"'">>
    ELSE s

\* Python truthiness of an optional field: None, "" and 0 are falsy
Truthy(opt) == opt # None /\ opt[1] \notin {<<>>, <<"0">>}

\* one "key: value" line of the frontmatter, emitted only for a truthy value
YamlLine(key, opt) == IF Truthy(opt) THEN <<key, ":", " ">> \o opt[1] \o <<"\n">> ELSE <<>>

\* MarkdownFormatter._format_frontmatter
FormatFrontmatter(rcp) ==
    <<"title", ":", " ">> \o YamlScalar(rcp.title) \o <<"\n">>
    \o YamlLine("prep_time", rcp.prep_time)
    \o YamlLine("cook_time", rcp.cook_time)
    \o YamlLine("cuisine", rcp.cuisine)
    \o YamlLine("url", rcp.url)
    \o YamlLine("main_ingredient", rcp.main_ingredient)
    \o YamlLine("servings", rcp.servings)
    \o YamlLine("calories_per_serving", rcp.calories_per_serving)
    \o YamlLine("macros", rcp.macros)
    \o <<"created", ":", " ", ToString(rcp.created), "\n">>

\* the bullet list of the Ingredients section
IngredientBullets(ingredients) ==
    Concat([i \in 1..Len(ingredients) |-> <<"-", " ">> \o ingredients[i] \o <<"\n">>])

\* the numbered list of the Instructions section
InstructionSteps(instructions) ==
    Concat([i \in 1..Len(instructions) |->
              <<ToString(i), ".", " ">> \o instructions[i] \o <<"\n">>])

\* MarkdownFormatter._format_body
FormatBody(rcp) ==
    <<"#", " ">> \o rcp.title \o <<"\n", "\n">>
    \o <<"#", "#", " ", "Ingredients", "\n", "\n">>
    \o IngredientBullets(rcp.ingredients)
    \o <<"\n", "#", "#", " ", "Instructions", "\n", "\n">>
    \o InstructionSteps(rcp.instructions)
    \o (IF Truthy(rcp.notes)
        THEN <<"\n", "#", "#", " ", "Notes", "\n", "\n">> \o rcp.notes[1] \o <<"\n">>
        ELSE <<>>)

\* MarkdownFormatter.format
Format(rcp) ==
    <<"-", "-", "-", "\n">> \o FormatFrontmatter(rcp)
    \o <<"-", "-", "-", "\n", "\n">> \o FormatBody(rcp)

(***************************************************************************)
(* service.py: ingredient parsing and comparison                           *)
(***************************************************************************)

\* _normalize_ingredient
NormalizeIngredient(ingredient) == Strip(Lower(ingredient))

\* length of the maximal run of whitespace that starts at position i
RECURSIVE SpaceRun(_, _)
SpaceRun(s, i) == IF i <= Len(s) /\ IsSpace(s[i]) THEN 1 + SpaceRun(s, i + 1) ELSE 0

\* re.search(r"##\s+Ingredients\s*\n\n(.*?)(?=\n##|\Z)", DOTALL | IGNORECASE):
\* the position where group 1 starts when the pattern matches with "##" at i,
\* 0 when it does not.  \s+ is the whole run of whitespace before the word;
\* \s* is greedy, so it leaves the last "\n\n" of the run after the word.
GroupStartAt(s, i) ==
    IF ~(i + 1 <= Len(s) /\ s[i] = "#" /\ s[i + 1] = "#") THEN 0
    ELSE LET w == SpaceRun(s, i + 2)
             j == i + 2 + w
         IN  IF w = 0 \/ j > Len(s) \/ LowerSym(s[j]) # "ingredients" THEN 0
             ELSE LET m  == SpaceRun(s, j + 1)
                      ks == {k \in 0..(m - 2) : s[j + 1 + k] = "\n" /\ s[j + 2 + k] = "\n"}
                  IN  IF ks = {} THEN 0
                      ELSE j + 3 + (CHOOSE k \in ks : \A k2 \in ks : k2 <= k)

\* group 1 of the leftmost match, as an optional value
IngredientsSection(s) ==
    LET starts == {i \in 1..Len(s) : GroupStartAt(s, i) # 0}
    IN  IF starts = {} THEN None
        ELSE LET i    == CHOOSE k \in starts : \A k2 \in starts : k <= k2
                 g    == GroupStartAt(s, i)
                 \* the lazy group ends at the first "\n##" or at the end
                 ends == {e \in g..Len(s) :
                            e + 2 <= Len(s) /\ s[e] = "\n" /\ s[e + 1] = "#" /\ s[e + 2] = "#"}
                 e    == IF ends = {} THEN Len(s) + 1
                         ELSE CHOOSE k \in ends : \A k2 \in ends : k <= k2
             IN  Some(SubSeq(s, g, e - 1))

\* the loop over the lines of the section (service.py 64-70)
RECURSIVE BulletLines(_)
BulletLines(lines) ==
    IF lines = <<>> THEN <<>>
    ELSE LET line == Strip(Head(lines))
         IN  (IF line # <<>> /\ line[1] = "-" /\ Strip(Tail(line)) # <<>>
              THEN <<Strip(Tail(line))>> ELSE <<>>)
             \o BulletLines(Tail(lines))

\* _extract_ingredients_from_markdown
ExtractIngredientsFromMarkdown(markdown_content) ==
    LET m == IngredientsSection(markdown_content)
    IN  IF m = None THEN <<>> ELSE BulletLines(SplitLines(m[1]))

\* ord(c) for the characters the model draws; a symbol that stands for a whole
\* word gets a number of its own above the characters
CodePoint(c) ==
    CASE c = "\t" -> 9
      [] c = "\n" -> 10
      [] c = " " -> 32
      [] c = "#" -> 35
      [] c = "*" -> 42
      [] c = "-" -> 45
      [] c = "A" -> 65
      [] c = "B" -> 66
      [] c = "D" -> 68
      [] c = "N" -> 78
      [] c = "a" -> 97
      [] c = "b" -> 98
      [] c = "d" -> 100
      [] c = "n" -> 110
      [] c = "s" -> 115
      [] OTHER -> 1000

\* s1 < s2 on str: lexicographic on code points, a proper prefix is smaller
RECURSIVE StrLess(_, _)
StrLess(s1, s2) ==
    IF s2 = <<>> THEN FALSE
    ELSE IF s1 = <<>> THEN TRUE
    ELSE IF CodePoint(Head(s1)) # CodePoint(Head(s2))
         THEN CodePoint(Head(s1)) < CodePoint(Head(s2))
    ELSE StrLess(Tail(s1), Tail(s2))

\* x put into the sorted list l, after the elements that are not greater
RECURSIVE Insert(_, _)
Insert(x, l) ==
    IF l = <<>> THEN <<x>>
    ELSE IF StrLess(x, Head(l)) THEN <<x>> \o l
    ELSE <<Head(l)>> \o Insert(x, Tail(l))

\* sorted(list of str)
RECURSIVE Sorted(_)
Sorted(l) == IF l = <<>> THEN <<>> ELSE Insert(l[Len(l)], Sorted(SubSeq(l, 1, Len(l) - 1)))

\* _compare_ingredients that compares the sets of normalized strings
\* (duplicates not counted)
CompareIngredientsAsSets(ingredients1, ingredients2) ==
    {NormalizeIngredient(ingredients1[i]) : i \in 1..Len(ingredients1)}
    = {NormalizeIngredient(ingredients2[i]) : i \in 1..Len(ingredients2)}

\* _compare_ingredients
CompareIngredients(ingredients1, ingredients2) ==
    LET normalized1 == Sorted([i \in 1..Len(ingredients1) |-> NormalizeIngredient(ingredients1[i])])
        normalized2 == Sorted([i \in 1..Len(ingredients2) |-> NormalizeIngredient(ingredients2[i])])
    IN  normalized1 = normalized2

(***************************************************************************)
(* VaultWriter: file names                                                 *)
(***************************************************************************)

\* max_length in _sanitize_filename
max_length == 200

\* the character class [<>:"/\\|?*]
InvalidChars == {"<", ">", ":", "\"", "/", "\\", "|", "?", "*"}

\* re.sub(r'[<>:"/\\|?*]', "", title)
RemoveInvalid(s) == SelectSeq(s, LAMBDA c : c \notin InvalidChars)

\* re.sub(r"\s+", " ", s): the first character of every run of whitespace
\* becomes one space, the rest of the run goes
CollapseSpaces(s) ==
    LET kept == SelectSeq([i \in 1..Len(s) |-> i],
                          LAMBDA i : ~IsSpace(s[i]) \/ i = 1 \/ ~IsSpace(s[i - 1]))
    IN  [k \in 1..Len(kept) |-> IF IsSpace(s[kept[k]]) THEN " " ELSE s[kept[k]]]

\* _sanitize_filename that cuts at max_length without trimming again
\* (the .strip() of writer.py 146 dropped)
SanitizeFilenameCutOnly(title) ==
    LET sanitized == Strip(CollapseSpaces(RemoveInvalid(title)))
        capped    == IF Len(sanitized) > max_length
                     THEN SubSeq(sanitized, 1, max_length) ELSE sanitized
    IN  IF capped = <<>> THEN <<"untitled_recipe">> ELSE capped

\* VaultWriter._sanitize_filename
SanitizeFilename(title) ==
    LET sanitized == Strip(CollapseSpaces(RemoveInvalid(title)))
        capped    == IF Len(sanitized) > max_length
                     THEN Strip(SubSeq(sanitized, 1, max_length)) ELSE sanitized
    IN  IF capped = <<>> THEN <<"untitled_recipe">> ELSE capped

\* get_file_path that uses the title as it is (writer.py 105 dropped)
GetFilePathUnsanitized(title) == title \o <<".md">>

\* VaultWriter.get_file_path: the name of the document below recipes_dir
GetFilePath(title) == SanitizeFilename(title) \o <<".md">>

\* file_path in VaultWriter.write (writer.py 55-56)
WritePath(title) == SanitizeFilename(title) \o <<".md">>

(***************************************************************************)
(* Python re, as far as the extractor uses it: a backtracking matcher on   *)
(* patterns given as sequences of elements.  Ends lists the positions      *)
(* where a match of the pattern that starts at pos can end, in the order   *)
(* in which the backtracking engine tries them (greedy first); the first   *)
(* entry is the match re reports.                                          *)
(***************************************************************************)

\* the smaller of two numbers
Min(a, b) == IF a < b THEN a ELSE b

\* no upper limit of a quantifier (*, +, {n,})
Unbounded == 1000000

Letters ==
    {"a", "b", "c", "d", "e", "f", "g", "h", "i", "j", "k", "l", "m", "n", "o", "p", "q",
     "r", "s", "t", "u", "v", "w", "x", "y", "z",
     "A", "B", "C", "D", "E", "F", "G", "H", "I", "J", "K", "L", "M", "N", "O", "P", "Q",
     "R", "S", "T", "U", "V", "W", "X", "Y", "Z"}
Digits == {"0", "1", "2", "3", "4", "5", "6", "7", "8", "9"}

\* character classes: the characters listed, or (neg) all others
Class(chars) == [neg |-> FALSE, chars |-> chars]
NotClass(chars) == [neg |-> TRUE, chars |-> chars]
Whitespace == Class({" ", "\n", "\t"})
Word == Class(Letters \cup Digits \cup {"_"})
Digit == Class(Digits)
Letter == Class(Letters)
Dot == NotClass({"\n"})
\* [-\u2022*]; the symbol "U+2022" stands for the bullet character
Bullet == Class({"-", "U+2022", "*"})

\* pattern elements: a class with a greedy quantifier {lo,hi}, an alternation
\* (?:a|b|...), a group repeated with +, the anchors ^ and $ under MULTILINE
Atom(cls, lo, hi) == [kind |-> "atom", cls |-> cls, lo |-> lo, hi |-> hi]
One(cls) == Atom(cls, 1, 1)
Opt(cls) == Atom(cls, 0, 1)
Star(cls) == Atom(cls, 0, Unbounded)
Plus(cls) == Atom(cls, 1, Unbounded)
Lit(w) == [i \in 1..Len(w) |-> One(Class({w[i]}))]
Alt(alts) == [kind |-> "alt", alts |-> alts]
PlusGroup(body) == [kind |-> "plus", body |-> body]
Bol == [kind |-> "bol"]
Eol == [kind |-> "eol"]

\* does character c belong to the class (ic: re.IGNORECASE)
InClass(c, cls, ic) ==
    LET in == IF ic THEN LowerSym(c) \in {LowerSym(x) : x \in cls.chars} ELSE c \in cls.chars
    IN  in # cls.neg

\* number of characters from pos on that belong to the class, up to the first
\* that does not
RunOf(s, ic, cls, pos) ==
    LET stops == {j \in pos..Len(s) : ~InClass(s[j], cls, ic)}
    IN  IF stops = {} THEN Len(s) + 1 - pos
        ELSE (CHOOSE j \in stops : \A k \in stops : j <= k) - pos

RECURSIVE Ends(_, _, _, _)
Ends(s, ic, pat, pos) ==
    IF pat = <<>> THEN <<pos>>
    ELSE LET a == Head(pat)
             rest == Tail(pat)
         IN  CASE a.kind = "atom" ->
                    LET cmax == Min(RunOf(s, ic, a.cls, pos), a.hi)
                    IN  IF cmax < a.lo THEN <<>>
                        ELSE Concat([j \in 1..(cmax - a.lo + 1) |->
                                        Ends(s, ic, rest, pos + cmax - j + 1)])
               [] a.kind = "alt" ->
                    Concat([i \in 1..Len(a.alts) |-> Ends(s, ic, a.alts[i] \o rest, pos)])
               [] a.kind = "plus" ->
                    LET once == Ends(s, ic, a.body, pos)
                    IN  Concat([i \in 1..Len(once) |->
                                  (IF once[i] > pos THEN Ends(s, ic, pat, once[i]) ELSE <<>>)
                                  \o Ends(s, ic, rest, once[i])])
               [] a.kind = "bol" ->
                    IF pos = 1 \/ s[pos - 1] = "\n" THEN Ends(s, ic, rest, pos) ELSE <<>>
               [] a.kind = "eol" ->
                    IF pos = Len(s) + 1 \/ s[pos] = "\n" THEN Ends(s, ic, rest, pos) ELSE <<>>

\* the ends of the group from p on that the rest of the pattern accepts, in
\* the order of the engine
GroupEnds(s, ic, group, post, p) ==
    SelectSeq(Ends(s, ic, group, p), LAMBDA e : Ends(s, ic, post, e) # <<>>)

\* the ends of the part before the group after which group and rest match
PreEnds(s, ic, pre, group, post, pos) ==
    SelectSeq(Ends(s, ic, pre, pos), LAMBDA p : GroupEnds(s, ic, group, post, p) # <<>>)

\* the match whose group starts at from and ends at the first of ends
MatchOf(s, ic, post, from, ends) ==
    Some([from |-> from, to |-> Head(ends), end |-> Head(Ends(s, ic, post, Head(ends)))])

\* the match that the first of the ends of the part before the group gives
FirstMatch(s, ic, group, post, pre_ends) ==
    IF pre_ends = <<>> THEN None
    ELSE MatchOf(s, ic, post, Head(pre_ends), GroupEnds(s, ic, group, post, Head(pre_ends)))

\* the match of pre (group) post that starts at pos: None, or the positions
\* where the group starts, where it ends and where the match ends (each the
\* position after the last character)
MatchAt(s, ic, pre, group, post, pos) ==
    FirstMatch(s, ic, group, post, PreEnds(s, ic, pre, group, post, pos))

\* the first of a sequence of optional values that is not None
FirstSome(opts) ==
    IF \A i \in 1..Len(opts) : opts[i] = None THEN None
    ELSE opts[CHOOSE i \in 1..Len(opts) : opts[i] # None /\ \A k \in 1..(i - 1) : opts[k] = None]

\* the matches at the start positions pos, pos + 1, ...
MatchesFrom(s, ic, pre, group, post, pos) ==
    [k \in 1..(Len(s) + 2 - pos) |-> MatchAt(s, ic, pre, group, post, pos + k - 1)]

\* re.search(pattern, s): the leftmost match
Search(s, ic, pre, group, post) == FirstSome(MatchesFrom(s, ic, pre, group, post, 1))

\* match.group(1)
Group(s, m) == SubSeq(s, m[1].from, m[1].to - 1)

\* re.sub(pattern, repl, s) for a pattern that matches no empty string, from
\* position pos on; e are the ends of the pattern at pos
RECURSIVE Sub(_, _, _, _, _)
SubAt(s, ic, pat, repl, pos, e) ==
    IF e # <<>> /\ Head(e) > pos THEN repl \o Sub(s, ic, pat, repl, Head(e))
    ELSE <<s[pos]>> \o Sub(s, ic, pat, repl, pos + 1)

Sub(s, ic, pat, repl, pos) ==
    IF pos > Len(s) THEN <<>>
    ELSE SubAt(s, ic, pat, repl, pos, Ends(s, ic, pat, pos))

(***************************************************************************)
(* RecipeExtractor: text preprocessing and the fallback heuristics         *)
(***************************************************************************)

\* RecipeExtractor.MAX_INPUT_LENGTH
MAX_INPUT_LENGTH == 5000

\* str.rfind(c): the 0-based index of the last c, -1 when there is none
RFind(s, c) ==
    LET at == {j \in 1..Len(s) : s[j] = c}
    IN  IF at = {} THEN -1 ELSE (CHOOSE j \in at : \A k \in at : k <= j) - 1

\* the truncation of _preprocess_text (extractor.py 367-386)
Truncate(text) ==
    IF Len(text) > MAX_INPUT_LENGTH
    THEN LET truncated == SubSeq(text, 1, MAX_INPUT_LENGTH)
             last_period == RFind(truncated, ".")
             last_newline == RFind(truncated, "\n")
             cutoff == IF last_period > last_newline THEN last_period ELSE last_newline
         IN  IF cutoff * 10 > MAX_INPUT_LENGTH * 8
             THEN SubSeq(truncated, 1, cutoff + 1) ELSE truncated
    ELSE text

\* RecipeExtractor._preprocess_text
PreprocessText(text) ==
    IF text = <<>> THEN text
    ELSE LET blanks   == Sub(text, FALSE, <<Plus(Class({" ", "\t"}))>>, <<" ">>, 1)
             newlines == Sub(blanks, FALSE, <<Atom(Class({"\n"}), 3, Unbounded)>>,
                             <<"\n", "\n">>, 1)
             around   == Sub(newlines, FALSE,
                             <<Star(Class({" "})), One(Class({"\n"})), Star(Class({" "}))>>,
                             <<"\n">>, 1)
             hashtags == Sub(around, FALSE, <<One(Class({"#"})), Plus(Word)>>, <<>>, 1)
             mentions == Sub(hashtags, FALSE, <<One(Class({"@"})), Plus(Word)>>, <<>>, 1)
             dots     == Sub(mentions, FALSE, <<Atom(Class({"."}), 3, Unbounded)>>,
                             <<".", ".", ".">>, 1)
             bangs    == Sub(dots, FALSE, <<Atom(Class({"!"}), 2, Unbounded)>>, <<"!">>, 1)
         IN  Truncate(Strip(bangs))

\* str.startswith(prefix)
StartsWith(s, prefix) == Len(s) >= Len(prefix) /\ SubSeq(s, 1, Len(prefix)) = prefix

\* the words a title does not start with (extractor.py 481-493)
TitleStopPrefixes ==
    {<<"i", "n", "g", "r", "e", "d", "i", "e", "n", "t", "s">>,
     <<"i", "n", "s", "t", "r", "u", "c", "t", "i", "o", "n", "s">>,
     <<"d", "i", "r", "e", "c", "t", "i", "o", "n", "s">>,
     <<"p", "r", "e", "p">>,
     <<"c", "o", "o", "k">>,
     <<"s", "e", "r", "v", "e", "s">>,
     <<"m", "a", "k", "e", "s">>,
     <<"-">>,
     <<"*">>,
     <<"1", ".">>,
     <<"2", ".">>}

\* the characters of [^:\n]
NotColonNewline == NotClass({":", "\n"})

\* title_patterns (extractor.py 499-503), each as the part before group 1,
\* group 1 and the part after it
title_patterns ==
    <<[pre   |-> <<Bol>>,
       group |-> <<Atom(NotColonNewline, 5, 80)>>,
       post  |-> <<Star(Whitespace)>> \o Lit(<<"r", "e", "c", "i", "p", "e">>)],
      [pre   |-> Lit(<<"r", "e", "c", "i", "p", "e", ":">>) \o <<Star(Whitespace)>>,
       group |-> <<Atom(NotColonNewline, 5, 80)>>,
       post  |-> <<>>],
      [pre   |-> <<Bol>>,
       group |-> <<One(Letter), Atom(NotColonNewline, 4, 80)>>,
       post  |-> <<Alt(<< <<One(Class({"\n"}))>>, <<Eol>> >>)>>]>>

\* a or, when that is None, b
OrElse(a, b) == IF a # None THEN a ELSE b

\* match.group(1).strip() (extractor.py 508), empty without a match
TitleOfMatch(text, match) == IF match = None THEN <<>> ELSE Strip(Group(text, match))

\* the check of a candidate title (extractor.py 509)
AcceptTitle(title) == IF title # <<>> /\ Len(title) < 100 THEN Some(title) ELSE None

\* the loop over title_patterns (extractor.py 505-512), from pattern k on
RECURSIVE TitleFromPatterns(_, _)
TitleFromPatterns(text, k) ==
    IF k > Len(title_patterns) THEN None
    ELSE OrElse(AcceptTitle(TitleOfMatch(text, Search(text, TRUE, title_patterns[k].pre,
                                                      title_patterns[k].group,
                                                      title_patterns[k].post))),
                TitleFromPatterns(text, k + 1))

\* the check of the first line (extractor.py 475-496)
AcceptFirstLine(first_line) ==
    IF /\ Len(first_line) < 100
       /\ first_line # <<>>
       /\ ~\E w \in TitleStopPrefixes : StartsWith(Lower(first_line), w)
    THEN Some(first_line) ELSE None

\* the first-line heuristic (extractor.py 473-496)
FirstLineTitle(text) == AcceptFirstLine(Strip(SplitLines(text)[1]))

\* a title fallback that tries the patterns before the first line
ExtractTitleFallbackPatternsFirst(text) ==
    IF text = <<>> THEN None
    ELSE OrElse(TitleFromPatterns(text, 1), FirstLineTitle(text))

\* RecipeExtractor._extract_title_fallback
ExtractTitleFallback(text) ==
    IF text = <<>> THEN None
    ELSE OrElse(FirstLineTitle(text), TitleFromPatterns(text, 1))

\* the line from position Head(e) on, the whole line when e is empty
DropPrefix(line, e) == IF e = <<>> THEN line ELSE From(line, Head(e))

\* text without what the pattern matches at its start (re.sub(r"^...", "", line))
StripPrefix(line, pat) == DropPrefix(line, Ends(line, FALSE, pat, 1))

\* one item of a bulleted list, [-\u2022*]\s*.+\n?, and of a numbered list,
\* \d+[.)]?\s*.+\n?
BulletItem == <<One(Bullet), Star(Whitespace), Plus(Dot), Opt(Class({"\n"}))>>
NumberItem == <<Plus(Digit), Opt(Class({".", ")"})), Star(Whitespace), Plus(Dot), Opt(Class({"\n"}))>>

\* [:\s]*\n after a section heading
HeadingEnd == <<Star(Class({":", " ", "\n", "\t"})), One(Class({"\n"}))>>

\* a line without its bullet and its number (extractor.py 544-545)
CleanLine(line) ==
    StripPrefix(StripPrefix(line, <<One(Bullet), Star(Whitespace)>>),
                <<Plus(Digit), One(Class({".", ")"})), Star(Whitespace)>>)

\* the lines of a matched section without bullets and numbers
\* (extractor.py 539-547 and 595-603); an empty line is skipped
CleanLines(lines) ==
    SelectSeq([i \in 1..Len(lines) |->
                 IF Strip(lines[i]) = <<>> THEN <<>> ELSE CleanLine(Strip(lines[i]))],
              LAMBDA line : line # <<>>)

\* the cleaned lines of group 1 of a match, none without a match
SectionOfMatch(text, match) ==
    IF match = None THEN <<>> ELSE CleanLines(SplitLines(Group(text, match)))

\* the list found or, when it is empty, the other one
OrIfEmpty(found, other) == IF found # <<>> THEN found ELSE other

\* the loop over the section patterns (extractor.py 534-549 and 590-605):
\* the cleaned lines of the first pattern that yields any
RECURSIVE SectionItems(_, _, _, _)
SectionItems(text, heading, items, k) ==
    IF k > Len(items) THEN <<>>
    ELSE OrIfEmpty(SectionOfMatch(text, Search(text, TRUE, heading \o HeadingEnd,
                                               <<PlusGroup(items[k])>>, <<>>)),
                   SectionItems(text, heading, items, k + 1))

\* \d+\s*(cup|tbsp|tsp|oz|lb|g|kg|ml|l|gram|pound|ounce)
QuantityPattern ==
    <<Plus(Digit), Star(Whitespace),
      Alt(<<Lit(<<"c", "u", "p">>),
            Lit(<<"t", "b", "s", "p">>),
            Lit(<<"t", "s", "p">>),
            Lit(<<"o", "z">>),
            Lit(<<"l", "b">>),
            Lit(<<"g">>),
            Lit(<<"k", "g">>),
            Lit(<<"m", "l">>),
            Lit(<<"l">>),
            Lit(<<"g", "r", "a", "m">>),
            Lit(<<"p", "o", "u", "n", "d">>),
            Lit(<<"o", "u", "n", "c", "e">>)>>)>>

\* a stripped line of the text without its bullet when it holds a quantity,
\* empty otherwise (extractor.py 553-565)
QuantityLine(line) ==
    IF /\ line # <<>>
       /\ Len(line) <= 100
       /\ Search(line, TRUE, <<>>, QuantityPattern, <<>>) # None
    THEN StripPrefix(line, <<One(Bullet), Star(Whitespace)>>) ELSE <<>>

\* the lines that hold a quantity (extractor.py 552-566)
QuantityLines(lines) ==
    SelectSeq([i \in 1..Len(lines) |-> QuantityLine(Strip(lines[i]))],
              LAMBDA line : line # <<>>)

\* ingredients if ingredients else None
SomeIfAny(list) == IF list # <<>> THEN Some(list) ELSE None

\* RecipeExtractor._extract_ingredients_fallback
ExtractIngredientsFallback(text) ==
    IF text = <<>> THEN None
    ELSE SomeIfAny(OrIfEmpty(
             SectionItems(text,
                          Lit(<<"i", "n", "g", "r", "e", "d", "i", "e", "n", "t">>) \o <<Opt(Class({"s"}))>>,
                          <<BulletItem, NumberItem>>, 1),
             QuantityLines(SplitLines(text))))

\* (?:instructions?|directions?|steps?|method)
InstructionsHeading ==
    <<Alt(<<Lit(<<"i", "n", "s", "t", "r", "u", "c", "t", "i", "o", "n">>) \o <<Opt(Class({"s"}))>>,
            Lit(<<"d", "i", "r", "e", "c", "t", "i", "o", "n">>) \o <<Opt(Class({"s"}))>>,
            Lit(<<"s", "t", "e", "p">>) \o <<Opt(Class({"s"}))>>,
            Lit(<<"m", "e", "t", "h", "o", "d">>)>>)>>

\* re.findall(r"^\d+[.)]\s*(.+)$", text, re.MULTILINE), from position pos on;
\* match is the leftmost match from pos on
RECURSIVE NumberedSteps(_, _)
StepsAfter(text, match) ==
    IF match = None THEN <<>>
    ELSE <<Group(text, match)>> \o NumberedSteps(text, match[1].end)

NumberedSteps(text, pos) ==
    StepsAfter(text,
               FirstSome(MatchesFrom(text, FALSE,
                                     <<Bol, Plus(Digit), One(Class({".", ")"})), Star(Whitespace)>>,
                                     <<Plus(Dot)>>, <<Eol>>, pos)))

\* [step.strip() for step in numbered_steps if step.strip()]
StrippedNonEmpty(steps) ==
    SelectSeq([i \in 1..Len(steps) |-> Strip(steps[i])], LAMBDA step : step # <<>>)

\* the choice between the section and the numbered steps (extractor.py 604-612)
InstructionsOf(section, numbered_steps) ==
    IF section # <<>> THEN Some(section)
    ELSE IF numbered_steps # <<>> THEN Some(StrippedNonEmpty(numbered_steps))
    ELSE None

\* RecipeExtractor._extract_instructions_fallback
ExtractInstructionsFallback(text) ==
    IF text = <<>> THEN None
    ELSE InstructionsOf(SectionItems(text, InstructionsHeading, <<BulletItem, NumberItem>>, 1),
                        NumberedSteps(text, 1))

(***************************************************************************)
(* The pipeline: concurrent process_recipe requests on one vault           *)
(***************************************************************************)

\* the requests that may be in flight at the same time
Procs == {"p1", "p2"}

\* number of recipes the model lets the extractor assemble
MaxRequests == 2

\* titles the extractor may return: both sanitize to the name "D", so every
\* request of the model targets the same title key
Titles == {<<"D">>, <<"D", "*">>}

\* ingredient lists the extractor may return
IngredientLists ==
    { << <<"b">>, <<" ", "A">> >>, << <<>> >> }

\* titles a caller may ask check_duplicate about
QueryTitles ==
    Titles \cup {<<" ", "D">>, <<"N">>, <<"N", "*">>, <<"*">>, <<"D", " ", "N">>}

\* "Untitled Recipe"
UntitledRecipe == <<"U", "n", "t", "i", "t", "l", "e", "d", " ", "R", "e", "c", "i", "p", "e">>

\*   ' \n'                  a blank text
\*   '#dal'                 only a hashtag: not blank, empty after preprocessing
\*   'Dal\n1 cup dal'       a title line and a line with a quantity
\*   'prep dal recipe'      first line starts with a stop word; "<text> recipe"
\*   '- recipe: a dal'      first line is a bullet; "recipe: <text>"
\*   '-\nadobo'             first line is a bullet; a later line of letters
\*   '- a'                  nothing a title heuristic accepts
\*   'Dal\ningredients:\n- dal\nsteps\n1. boil' title, ingredients section and steps section
\* the input texts drawn
ExtractTexts ==
    {<<" ", "\n">>,
     <<"#", "d", "a", "l">>,
     <<"D", "a", "l", "\n", "1", " ", "c", "u", "p", " ", "d", "a", "l">>,
     <<"p", "r", "e", "p", " ", "d", "a", "l", " ", "r", "e", "c", "i", "p", "e">>,
     <<"-", " ", "r", "e", "c", "i", "p", "e", ":", " ", "a", " ", "d", "a", "l">>,
     <<"-", "\n", "a", "d", "o", "b", "o">>,
     <<"-", " ", "a">>,
     <<"D", "a", "l", "\n", "i", "n", "g", "r", "e", "d", "i", "e", "n", "t", "s", ":", "\n", "-", " ", "d", "a", "l", "\n", "s", "t", "e", "p", "s", "\n", "1", ".", " ", "b", "o", "i", "l">>}

\* a JSON number, a string that reads as a number, any other string
Num(v) == [kind |-> "num", v |-> v]
NumStr(v) == [kind |-> "numstr", v |-> v]
Text == [kind |-> "text", v |-> 0]

\* the keys of the nutrition values
NutritionKeys == {"calories_per_serving", "carbs_grams", "protein_grams", "fat_grams"}

\* a parsed extraction response without any key
EmptyDraft ==
    [is_schema |-> FALSE, title |-> None, ingredients |-> None, instructions |-> None,
     servings |-> None, notes |-> None, calories_per_serving |-> None, carbs_grams |-> None,
     protein_grams |-> None, fat_grams |-> None]

\* the nutrition values of the drafts drawn: every combination of present and
\* absent values, and full sets with a negative number or a string
FullNutrition ==
    [calories_per_serving |-> Some(Num(350)), carbs_grams |-> Some(Num(45)),
     protein_grams |-> Some(Num(30)), fat_grams |-> Some(Num(8))]
DraftNutritions ==
    {[k \in NutritionKeys |-> IF k \in present THEN FullNutrition[k] ELSE None] :
        present \in SUBSET NutritionKeys}
    \cup {[FullNutrition EXCEPT !.fat_grams = Some(Num(-8))],
          [FullNutrition EXCEPT !.calories_per_serving = Some(NumStr(350))]}

WithNutrition(d, n) ==
    [d EXCEPT !.calories_per_serving = n.calories_per_serving, !.carbs_grams = n.carbs_grams,
              !.protein_grams = n.protein_grams, !.fat_grams = n.fat_grams]

\* the parsed extraction responses drawn: a complete draft with every set of
\* nutrition values; drafts with title, ingredients or instructions missing
\* or empty, together or one of them only; and echoes of the schema, one of
\* them with a title, ingredients and instructions beside its "properties"
CompleteDraft ==
    [EmptyDraft EXCEPT !.title = Some(<<"D">>), !.ingredients = Some(<< <<"b">> >>),
                       !.instructions = Some(<< <<"s">> >>)]
Drafts ==
    {WithNutrition(CompleteDraft, n) : n \in DraftNutritions}
    \cup {WithNutrition([CompleteDraft EXCEPT !.title = t, !.ingredients = l, !.instructions = l], n) :
            t \in {None, Some(<<>>), Some(<<"D">>)},
            l \in {None, Some(<<>>)},
            n \in {FullNutrition, [k \in NutritionKeys |-> None]}}
    \cup {WithNutrition([CompleteDraft EXCEPT !.title = t, ![f] = None], FullNutrition) :
            t \in {None, Some(<<"D">>)},
            f \in {"ingredients", "instructions"}}
    \cup {WithNutrition([EmptyDraft EXCEPT !.is_schema = TRUE], n) :
            n \in {FullNutrition, [k \in NutritionKeys |-> None]}}
    \cup {WithNutrition([CompleteDraft EXCEPT !.is_schema = TRUE], FullNutrition)}

\* the parsed nutrition responses drawn: complete, with a key missing, with
\* a string that is a number, with a string that is none, with a negative
\* number
FullResponse ==
    [calories_per_serving |-> Some(Num(100)), carbs_grams |-> Some(Num(10)),
     protein_grams |-> Some(Num(5)), fat_grams |-> Some(Num(2))]
NutritionResponses ==
    {FullResponse,
     [FullResponse EXCEPT !.fat_grams = None],
     [FullResponse EXCEPT !.carbs_grams = Some(NumStr(10))],
     [FullResponse EXCEPT !.protein_grams = Some(Text)],
     [FullResponse EXCEPT !.calories_per_serving = Some(Num(-100))]}

\* the titles extract can give a recipe
ExtractTitles ==
    {<<"D">>, UntitledRecipe}
    \cup {t[1] : t \in {ExtractTitleFallback(PreprocessText(u)) : u \in ExtractTexts} \ {None}}

\* the names a document can have below recipes_dir
FileNames ==
    {SanitizeFilename(t) \o <<".md">> : t \in QueryTitles \cup ExtractTitles}
    \cup {t \o <<".md">> : t \in QueryTitles}

\* Recipe as assembled by RecipeExtractor.extract at time `now`
MakeRecipe(title, ingredients, now) ==
    [title |-> title, ingredients |-> ingredients, instructions |-> << <<"s">> >>,
     notes |-> None, prep_time |-> None, cook_time |-> None, cuisine |-> None,
     url |-> None, main_ingredient |-> None, servings |-> Some(<<"1">>),
     calories_per_serving |-> Some(<<"0">>), macros |-> Some(<<"m">>),
     created |-> now]

VARIABLES
    vault,          \* recipes_dir: file name -> optional document content
    tmp,            \* per request: the temp file of the running write call
    clock,          \* datetime.now(), counted in assembled recipes
    pc,             \* per request: the next step of process_recipe
    overwrite,      \* per request: argument overwrite
    preview_only,   \* per request: argument preview_only
    recipe,         \* per request: the extracted Recipe (optional)
    is_duplicate,   \* per request: local is_duplicate
    duplicate_ingredients_match,  \* per request: local of the same name
    existing,       \* per request: the text read from the existing document
    markdown,       \* per request: the rendered document (optional)
    result,         \* per request: how the call ended (ProcessingResult or error)
    last_replace,   \* history: per file, the request whose os.replace came last
    unlink_failed,  \* history: per request, os.unlink of the temp file failed
    fn_arg,         \* the argument of a function checked on its own
    fn_ret,         \* its result (optional)
    input_text,     \* extract: argument text
    source_url,     \* extract: argument source_url (optional)
    processed_text, \* extract: local processed_text
    llm_result,     \* extract: local result, the parsed LLM response (optional)
    nutrition,      \* extract: local nutrition (optional)
    llm_calls,      \* history: the calls of llm_client.generate, in order
    hc_pc,          \* health_check: the next step of the loop
    attempt,        \* health_check: loop variable attempt
    events          \* history: the probes and sleeps of health_check, in order

vars == <<vault, tmp, clock, pc, overwrite, preview_only, recipe, is_duplicate,
          duplicate_ingredients_match, existing, markdown, result, last_replace,
          unlink_failed, fn_arg, fn_ret, input_text, source_url, processed_text, llm_result,
          nutrition, llm_calls, hc_pc, attempt, events>>

\* the variables of health_check run on its own
hcvars == <<hc_pc, attempt, events>>

\* the variables of the function checks, which the pipeline leaves alone
fnvars == <<fn_arg, fn_ret, hcvars>>

\* the variables of extract, which only its own steps change
exvars == <<input_text, source_url, processed_text, llm_result, nutrition, llm_calls>>

NoResult ==
    [status |-> "none", detail |-> "", file_path |-> None,
     is_duplicate |-> FALSE, duplicate_ingredients_match |-> FALSE]

\* ProcessingResult(...) (service.py 253-265)
ProcessingResult(file_path, dup, match) ==
    [status |-> "ok", detail |-> "", file_path |-> file_path,
     is_duplicate |-> dup, duplicate_ingredients_match |-> match]

\* the document request p looks up: writer.get_file_path(title) (service.py 172)
Existing(p) == GetFilePath(recipe[p][1].title)

\* the destination of the write of request p
Dest(p) == WritePath(recipe[p][1].title)

\* VaultWriter.check_duplicate
CheckDuplicateOf(title) == vault[GetFilePath(title)] # None

\* the vault and the requests before the first call
InitPipeline ==
    /\ vault = [f \in FileNames |-> None]
    /\ tmp = [p \in Procs |-> None]
    /\ clock = 0
    /\ pc = [p \in Procs |-> "idle"]
    /\ overwrite = [p \in Procs |-> FALSE]
    /\ preview_only = [p \in Procs |-> FALSE]
    /\ recipe = [p \in Procs |-> None]
    /\ is_duplicate = [p \in Procs |-> FALSE]
    /\ duplicate_ingredients_match = [p \in Procs |-> FALSE]
    /\ existing = [p \in Procs |-> None]
    /\ markdown = [p \in Procs |-> None]
    /\ result = [p \in Procs |-> NoResult]
    /\ last_replace = [f \in FileNames |-> None]
    /\ unlink_failed = [p \in Procs |-> FALSE]
    /\ input_text = <<>>
    /\ source_url = None
    /\ processed_text = <<>>
    /\ llm_result = None
    /\ nutrition = None
    /\ llm_calls = <<>>
    /\ hc_pc = "probe"
    /\ attempt = 0
    /\ events = <<>>

Init ==
    /\ InitPipeline
    /\ fn_arg = None
    /\ fn_ret = None

\* the call raises: process_recipe ends with an exception
Raise(p, status, detail) ==
    /\ pc' = [pc EXCEPT ![p] = "failed"]
    /\ result' = [result EXCEPT ![p] = [NoResult EXCEPT !.status = status, !.detail = detail]]

\* process_recipe is called (service.py 100-142)
Start(p) ==
    /\ pc[p] = "idle"
    /\ clock + Cardinality({q \in Procs : pc[q] \in {"health", "extract"}}) < MaxRequests
    /\ \E ow \in BOOLEAN, pv \in BOOLEAN :
          /\ overwrite' = [overwrite EXCEPT ![p] = ow]
          /\ preview_only' = [preview_only EXCEPT ![p] = pv]
    /\ pc' = [pc EXCEPT ![p] = "health"]
    /\ UNCHANGED <<unlink_failed, vault, tmp, clock, recipe, is_duplicate,
                   duplicate_ingredients_match, existing, markdown, result, last_replace>>
    /\ UNCHANGED <<fnvars, exvars>>

\* a probe whose failure is raised only after the extraction call was made
HealthCheckAfterGenerate(p) ==
    /\ pc[p] = "health"
    /\ \/ /\ pc' = [pc EXCEPT ![p] = "extract"]
          /\ UNCHANGED <<result, llm_calls>>
       \/ /\ llm_calls' = Append(llm_calls, [prompt |-> "extraction", response |-> "unreachable"])
          /\ Raise(p, "ConnectionError", "health")
    /\ UNCHANGED <<unlink_failed, vault, tmp, clock, overwrite, preview_only, recipe, is_duplicate,
                   duplicate_ingredients_match, existing, markdown, last_replace>>
    /\ UNCHANGED <<fnvars, input_text, source_url, processed_text, llm_result, nutrition>>

\* llm_client.health_check() (service.py 144-147)
HealthCheck(p) ==
    /\ pc[p] = "health"
    /\ \/ /\ pc' = [pc EXCEPT ![p] = "extract"]
          /\ UNCHANGED result
       \/ Raise(p, "ConnectionError", "health")
    /\ UNCHANGED <<unlink_failed, vault, tmp, clock, overwrite, preview_only, recipe, is_duplicate,
                   duplicate_ingredients_match, existing, markdown, last_replace>>
    /\ UNCHANGED <<fnvars, exvars>>

\* extractor.extract(input_text) (service.py 153-162): any recipe, or an error
Extract(p) ==
    /\ pc[p] = "extract"
    /\ \/ /\ \E t \in Titles, ings \in IngredientLists :
                recipe' = [recipe EXCEPT ![p] = Some(MakeRecipe(t, ings, clock + 1))]
          /\ clock' = clock + 1
          /\ pc' = [pc EXCEPT ![p] = "check"]
          /\ UNCHANGED result
       \/ /\ \E e \in {"ConnectionError", "ValueError"} : Raise(p, e, "extract")
          /\ UNCHANGED <<recipe, clock>>
    /\ UNCHANGED <<unlink_failed, vault, tmp, overwrite, preview_only, is_duplicate,
                   duplicate_ingredients_match, existing, markdown, last_replace>>
    /\ UNCHANGED <<fnvars, exvars>>

\* Resolve without the check of overwrite (service.py 192 dropped)
ResolveWithoutOverwriteCheck(p, dup, match) ==
    IF dup /\ ~preview_only[p] /\ ~match
    THEN Raise(p, "FileExistsError", "mismatch") /\ UNCHANGED markdown
    ELSE /\ markdown' = [markdown EXCEPT ![p] = Some(Format(recipe[p][1]))]
         /\ IF preview_only[p]
            THEN /\ pc' = [pc EXCEPT ![p] = "done"]
                 /\ result' = [result EXCEPT ![p] = ProcessingResult(None, dup, match)]
            ELSE /\ pc' = [pc EXCEPT ![p] = "write_check"]
                 /\ UNCHANGED result

\* Resolve without the check of the ingredient match (service.py 203 dropped)
ResolveWithoutMatchCheck(p, dup, match) ==
    IF dup /\ ~preview_only[p] /\ ~overwrite[p]
    THEN Raise(p, "FileExistsError", "exists") /\ UNCHANGED markdown
    ELSE /\ markdown' = [markdown EXCEPT ![p] = Some(Format(recipe[p][1]))]
         /\ IF preview_only[p]
            THEN /\ pc' = [pc EXCEPT ![p] = "done"]
                 /\ result' = [result EXCEPT ![p] = ProcessingResult(None, dup, match)]
            ELSE /\ pc' = [pc EXCEPT ![p] = "write_check"]
                 /\ UNCHANGED result

\* Resolve that raises in preview mode as well (service.py 190 dropped)
ResolveRaisingInPreview(p, dup, match) ==
    IF dup /\ ~overwrite[p]
    THEN Raise(p, "FileExistsError", "exists") /\ UNCHANGED markdown
    ELSE IF dup /\ ~match
    THEN Raise(p, "FileExistsError", "mismatch") /\ UNCHANGED markdown
    ELSE /\ markdown' = [markdown EXCEPT ![p] = Some(Format(recipe[p][1]))]
         /\ IF preview_only[p]
            THEN /\ pc' = [pc EXCEPT ![p] = "done"]
                 /\ result' = [result EXCEPT ![p] = ProcessingResult(None, dup, match)]
            ELSE /\ pc' = [pc EXCEPT ![p] = "write_check"]
                 /\ UNCHANGED result

\* the code after the duplicate lookup (service.py 189-248) for a request whose
\* ingredient comparison gave `match`: raise, or format and go on to write
Resolve(p, dup, match) ==
    IF dup /\ ~preview_only[p] /\ ~overwrite[p]
    THEN Raise(p, "FileExistsError", "exists") /\ UNCHANGED markdown
    ELSE IF dup /\ ~preview_only[p] /\ ~match
    THEN Raise(p, "FileExistsError", "mismatch") /\ UNCHANGED markdown
    ELSE /\ markdown' = [markdown EXCEPT ![p] = Some(Format(recipe[p][1]))]
         /\ IF preview_only[p]
            THEN /\ pc' = [pc EXCEPT ![p] = "done"]
                 /\ result' = [result EXCEPT ![p] = ProcessingResult(None, dup, match)]
            ELSE /\ pc' = [pc EXCEPT ![p] = "write_check"]
                 /\ UNCHANGED result

\* a duplicate check whose match flag starts as True (service.py 166 changed)
CheckDuplicateMatchingByDefault(p) ==
    /\ pc[p] = "check"
    /\ LET dup == CheckDuplicateOf(recipe[p][1].title)
       IN  /\ is_duplicate' = [is_duplicate EXCEPT ![p] = dup]
           /\ duplicate_ingredients_match' = [duplicate_ingredients_match EXCEPT ![p] = TRUE]
           /\ IF dup
              THEN /\ pc' = [pc EXCEPT ![p] = "read"]
                   /\ UNCHANGED <<markdown, result>>
              ELSE Resolve(p, FALSE, TRUE)
    /\ UNCHANGED <<unlink_failed, vault, tmp, clock, overwrite, preview_only, recipe, existing,
                   last_replace>>
    /\ UNCHANGED <<fnvars, exvars>>

\* writer.check_duplicate(recipe.metadata.title) (service.py 164-168)
CheckDuplicate(p) ==
    /\ pc[p] = "check"
    /\ LET dup == CheckDuplicateOf(recipe[p][1].title)
       IN  /\ is_duplicate' = [is_duplicate EXCEPT ![p] = dup]
           /\ duplicate_ingredients_match' = [duplicate_ingredients_match EXCEPT ![p] = FALSE]
           /\ IF dup
              THEN /\ pc' = [pc EXCEPT ![p] = "read"]
                   /\ UNCHANGED <<markdown, result>>
              ELSE Resolve(p, FALSE, FALSE)
    /\ UNCHANGED <<unlink_failed, vault, tmp, clock, overwrite, preview_only, recipe, existing,
                   last_replace>>
    /\ UNCHANGED <<fnvars, exvars>>

\* existing_file.exists(), read_text() and the comparison (service.py 170-187),
\* then the decision (service.py 189-227); a failed read, or a file that is
\* not there, leaves the match flag False
ReadExisting(p) ==
    /\ pc[p] = "read"
    /\ \/ /\ vault[Existing(p)] # None
          /\ LET text  == vault[Existing(p)][1]
                 match == CompareIngredients(recipe[p][1].ingredients,
                                             ExtractIngredientsFromMarkdown(text))
             IN  /\ existing' = [existing EXCEPT ![p] = Some(text)]
                 /\ duplicate_ingredients_match' =
                        [duplicate_ingredients_match EXCEPT ![p] = match]
                 /\ Resolve(p, TRUE, match)
       \/ /\ UNCHANGED <<existing, duplicate_ingredients_match>>
          /\ Resolve(p, TRUE, FALSE)
    /\ UNCHANGED <<unlink_failed, vault, tmp, clock, overwrite, preview_only, recipe, is_duplicate,
                   last_replace>>
    /\ UNCHANGED <<fnvars, exvars>>

(***************************************************************************)
(* VaultWriter.write, one action per file-system call                      *)
(***************************************************************************)

\* a step inside the inner try fails: go to the except clause (writer.py 84)
ToCleanup(p) ==
    /\ pc' = [pc EXCEPT ![p] = "cleanup"]
    /\ UNCHANGED <<vault, tmp, result, last_replace>>

\* write without its own duplicate check (writer.py 59 dropped)
WriteCheckAlwaysPasses(p) ==
    /\ pc[p] = "write_check"
    /\ pc' = [pc EXCEPT ![p] = "mkstemp"]
    /\ UNCHANGED <<unlink_failed, vault, tmp, clock, overwrite, preview_only, recipe,
                   is_duplicate, duplicate_ingredients_match, existing, markdown, result,
                   last_replace>>
    /\ UNCHANGED <<fnvars, exvars>>

\* the duplicate check of write (writer.py 55-63)
WriteCheck(p) ==
    /\ pc[p] = "write_check"
    /\ IF ~overwrite[p] /\ vault[Dest(p)] # None
       THEN Raise(p, "FileExistsError", "writer")
       ELSE pc' = [pc EXCEPT ![p] = "mkstemp"] /\ UNCHANGED result
    /\ UNCHANGED <<unlink_failed, vault, tmp, clock, overwrite, preview_only, recipe, is_duplicate,
                   duplicate_ingredients_match, existing, markdown, last_replace>>
    /\ UNCHANGED <<fnvars, exvars>>

\* a temp file created under the destination name (writer.py 69-71 with the
\* name of file_path)
MkStempAtDestination(p) ==
    /\ pc[p] = "mkstemp"
    /\ \/ /\ tmp' = [tmp EXCEPT ![p] = Some(<<>>)]
          /\ vault' = [vault EXCEPT ![Dest(p)] = Some(<<>>)]
          /\ pc' = [pc EXCEPT ![p] = "write"]
          /\ UNCHANGED result
       \/ /\ Raise(p, "OSError", "mkstemp")
          /\ UNCHANGED <<tmp, vault>>
    /\ UNCHANGED <<unlink_failed, clock, overwrite, preview_only, recipe, is_duplicate,
                   duplicate_ingredients_match, existing, markdown, last_replace>>
    /\ UNCHANGED <<fnvars, exvars>>

\* tempfile.mkstemp(dir=recipes_dir) (writer.py 69-71); a failure is wrapped
\* into OSError by the outer except (writer.py 90-92)
MkStemp(p) ==
    /\ pc[p] = "mkstemp"
    /\ \/ /\ tmp' = [tmp EXCEPT ![p] = Some(<<>>)]
          /\ pc' = [pc EXCEPT ![p] = "write"]
          /\ UNCHANGED result
       \/ /\ Raise(p, "OSError", "mkstemp")
          /\ UNCHANGED tmp
    /\ UNCHANGED <<unlink_failed, vault, clock, overwrite, preview_only, recipe, is_duplicate,
                   duplicate_ingredients_match, existing, markdown, last_replace>>
    /\ UNCHANGED <<fnvars, exvars>>

\* f.write on the destination itself instead of a temp file
WriteTempInPlace(p) ==
    /\ pc[p] = "write"
    /\ \/ /\ vault' = [vault EXCEPT ![Dest(p)] =
                         Some(SubSeq(markdown[p][1], 1, Len(markdown[p][1]) \div 2))]
          /\ tmp' = [tmp EXCEPT ![p] =
                       Some(SubSeq(markdown[p][1], 1, Len(markdown[p][1]) \div 2))]
          /\ pc' = [pc EXCEPT ![p] = "flush"]
          /\ UNCHANGED <<result, last_replace>>
       \/ ToCleanup(p)
    /\ UNCHANGED <<unlink_failed, clock, overwrite, preview_only, recipe, is_duplicate,
                   duplicate_ingredients_match, existing, markdown>>
    /\ UNCHANGED <<fnvars, exvars>>

\* f.write(content) (writer.py 75-76): part of the text reaches the temp file
WriteTemp(p) ==
    /\ pc[p] = "write"
    /\ \/ /\ tmp' = [tmp EXCEPT ![p] =
                       Some(SubSeq(markdown[p][1], 1, Len(markdown[p][1]) \div 2))]
          /\ pc' = [pc EXCEPT ![p] = "flush"]
          /\ UNCHANGED <<vault, result, last_replace>>
       \/ ToCleanup(p)
    /\ UNCHANGED <<unlink_failed, clock, overwrite, preview_only, recipe, is_duplicate,
                   duplicate_ingredients_match, existing, markdown>>
    /\ UNCHANGED <<fnvars, exvars>>

\* a close of the temp file that loses what write had not yet put there
FlushLosingRest(p) ==
    /\ pc[p] = "flush"
    /\ \/ /\ pc' = [pc EXCEPT ![p] = "replace"]
          /\ UNCHANGED <<vault, tmp, result, last_replace>>
       \/ ToCleanup(p)
    /\ UNCHANGED <<unlink_failed, clock, overwrite, preview_only, recipe, is_duplicate,
                   duplicate_ingredients_match, existing, markdown>>
    /\ UNCHANGED <<fnvars, exvars>>

\* f.flush(), os.fsync(f.fileno()) and the close of the with block
\* (writer.py 77-78): the rest of the text reaches the temp file
Flush(p) ==
    /\ pc[p] = "flush"
    /\ \/ /\ tmp' = [tmp EXCEPT ![p] = markdown[p]]
          /\ pc' = [pc EXCEPT ![p] = "replace"]
          /\ UNCHANGED <<vault, result, last_replace>>
       \/ ToCleanup(p)
    /\ UNCHANGED <<unlink_failed, clock, overwrite, preview_only, recipe, is_duplicate,
                   duplicate_ingredients_match, existing, markdown>>
    /\ UNCHANGED <<fnvars, exvars>>

\* a rename that does not replace a destination that exists
ReplaceKeepingExisting(p) ==
    /\ pc[p] = "replace"
    /\ \/ /\ vault' = IF vault[Dest(p)] = None
                      THEN [vault EXCEPT ![Dest(p)] = tmp[p]] ELSE vault
          /\ tmp' = [tmp EXCEPT ![p] = None]
          /\ last_replace' = [last_replace EXCEPT ![Dest(p)] = Some(p)]
          /\ pc' = [pc EXCEPT ![p] = "done"]
          /\ result' = [result EXCEPT ![p] =
                          ProcessingResult(Some(Dest(p)), is_duplicate[p],
                                           duplicate_ingredients_match[p])]
       \/ ToCleanup(p)
    /\ UNCHANGED <<unlink_failed, clock, overwrite, preview_only, recipe, is_duplicate,
                   duplicate_ingredients_match, existing, markdown>>
    /\ UNCHANGED <<fnvars, exvars>>

\* os.replace(temp_path, file_path) (writer.py 80-82, 94; service.py 243-265)
Replace(p) ==
    /\ pc[p] = "replace"
    /\ \/ /\ vault' = [vault EXCEPT ![Dest(p)] = tmp[p]]
          /\ tmp' = [tmp EXCEPT ![p] = None]
          /\ last_replace' = [last_replace EXCEPT ![Dest(p)] = Some(p)]
          /\ pc' = [pc EXCEPT ![p] = "done"]
          /\ result' = [result EXCEPT ![p] =
                          ProcessingResult(Some(Dest(p)), is_duplicate[p],
                                           duplicate_ingredients_match[p])]
       \/ ToCleanup(p)
    /\ UNCHANGED <<unlink_failed, clock, overwrite, preview_only, recipe, is_duplicate,
                   duplicate_ingredients_match, existing, markdown>>
    /\ UNCHANGED <<fnvars, exvars>>

\* an except clause that re-raises without os.unlink (writer.py 86-87 dropped)
CleanupWithoutUnlink(p) ==
    /\ pc[p] = "cleanup"
    /\ Raise(p, "OSError", "write")
    /\ UNCHANGED <<vault, tmp, unlink_failed, clock, overwrite, preview_only, recipe,
                   is_duplicate, duplicate_ingredients_match, existing, markdown, last_replace>>
    /\ UNCHANGED <<fnvars, exvars>>

\* the except clause (writer.py 84-92): os.unlink(temp_path) with its own
\* failure suppressed, then the error is re-raised as OSError
Cleanup(p) ==
    /\ pc[p] = "cleanup"
    /\ \/ tmp' = [tmp EXCEPT ![p] = None] /\ UNCHANGED unlink_failed
       \/ UNCHANGED tmp /\ unlink_failed' = [unlink_failed EXCEPT ![p] = TRUE]
    /\ Raise(p, "OSError", "write")
    /\ UNCHANGED <<vault, clock, overwrite, preview_only, recipe, is_duplicate,
                   duplicate_ingredients_match, existing, markdown, last_replace>>
    /\ UNCHANGED <<fnvars, exvars>>

\* the call has returned or raised; the caller may issue the next request.
\* A temp file the call did not remove stays in recipes_dir under a name no
\* later call uses, so the model stops tracking it.
Finish(p) ==
    /\ pc[p] \in {"done", "failed"}
    /\ pc' = [pc EXCEPT ![p] = "idle"]
    /\ tmp' = [tmp EXCEPT ![p] = None]
    /\ overwrite' = [overwrite EXCEPT ![p] = FALSE]
    /\ preview_only' = [preview_only EXCEPT ![p] = FALSE]
    /\ recipe' = [recipe EXCEPT ![p] = None]
    /\ is_duplicate' = [is_duplicate EXCEPT ![p] = FALSE]
    /\ duplicate_ingredients_match' = [duplicate_ingredients_match EXCEPT ![p] = FALSE]
    /\ existing' = [existing EXCEPT ![p] = None]
    /\ markdown' = [markdown EXCEPT ![p] = None]
    /\ result' = [result EXCEPT ![p] = NoResult]
    /\ unlink_failed' = [unlink_failed EXCEPT ![p] = FALSE]
    /\ UNCHANGED <<vault, clock, last_replace>>
    /\ UNCHANGED <<fnvars, exvars>>

Next ==
    \E p \in Procs :
        \/ Start(p)
        \/ HealthCheck(p)
        \/ Extract(p)
        \/ CheckDuplicate(p)
        \/ ReadExisting(p)
        \/ WriteCheck(p)
        \/ MkStemp(p)
        \/ WriteTemp(p)
        \/ Flush(p)
        \/ Replace(p)
        \/ Cleanup(p)
        \/ Finish(p)

Spec == Init /\ [][Next]_vars

(***************************************************************************)
(* One request with RecipeExtractor.extract step by step: the input text   *)
(* and the flags are drawn at the call, the responses of the LLM at each   *)
(* call of generate.  The vault holds a document "D.md" of an earlier run. *)
(***************************************************************************)

\* the request
Req == "p1"

\* float(x) succeeds (a KeyError, TypeError or ValueError otherwise)
IsFloat(opt) == opt # None /\ opt[1].kind \in {"num", "numstr"}

\* float rendered in the document: one symbol
Float(v) == <<ToString(v)>>

\* the nutrition dict of four floats
NutritionOf(r) == [k \in NutritionKeys |-> r[k][1].v]
ZeroNutrition == [k \in NutritionKeys |-> 0]

\* the texts extract works on, and what the three fallbacks find in each
ProcessedTexts == {PreprocessText(t) : t \in ExtractTexts}
TitleFallback == [t \in ProcessedTexts |-> ExtractTitleFallback(t)]
IngredientsFallback == [t \in ProcessedTexts |-> ExtractIngredientsFallback(t)]
InstructionsFallback == [t \in ProcessedTexts |-> ExtractInstructionsFallback(t)]

\* RecipeExtractor._extract_fallback
ExtractFallback(text, schema_response) ==
    [schema_response EXCEPT !.is_schema = FALSE,
                            !.title = TitleFallback[text],
                            !.ingredients = IngredientsFallback[text],
                            !.instructions = InstructionsFallback[text]]

\* not result.get(key)
Falsy(opt) == opt = None \/ opt[1] = <<>>

\* the value of a required field: the one of the response; when that is
\* missing or empty the one the fallback found, else the default
Required(opt, found, default) ==
    IF ~Falsy(opt) THEN opt ELSE IF found # None THEN found ELSE Some(default)

\* fallbacks that replace all three fields as soon as one of them is missing
\* or empty
WithRequiredFieldsTogether(text, r) ==
    IF Falsy(r.title) \/ Falsy(r.ingredients) \/ Falsy(r.instructions)
    THEN [r EXCEPT !.title = Required(None, TitleFallback[text], UntitledRecipe),
                   !.ingredients = Required(None, IngredientsFallback[text], <<>>),
                   !.instructions = Required(None, InstructionsFallback[text], <<>>)]
    ELSE r

\* the fallbacks for the required fields (extractor.py 123-164)
WithRequiredFields(text, r) ==
    [r EXCEPT !.title = Required(r.title, TitleFallback[text], UntitledRecipe),
              !.ingredients = Required(r.ingredients, IngredientsFallback[text], <<>>),
              !.instructions = Required(r.instructions, InstructionsFallback[text], <<>>)]

\* result.get("servings") or 1
ServingsOf(r) == IF r.servings = None \/ r.servings[1] = 0 THEN 1 ELSE r.servings[1]

\* RecipeMetadata(...) and Recipe(...) (extractor.py 255-279)
AssembleRecipe(r, n, now) ==
    [title |-> r.title[1], ingredients |-> r.ingredients[1],
     instructions |-> r.instructions[1], notes |-> r.notes,
     prep_time |-> None, cook_time |-> None, cuisine |-> None, url |-> None,
     main_ingredient |-> None, servings |-> Some(Float(ServingsOf(r))),
     calories_per_serving |-> Some(Float(n.calories_per_serving)),
     macros |-> Some(Float(n.carbs_grams) \o Float(n.protein_grams) \o Float(n.fat_grams)),
     created |-> now]

\* the vault as the request finds it: one document, "D.md", of an earlier run
InitialVault ==
    [f \in FileNames |->
       IF f = GetFilePath(<<"D">>)
       THEN Some(Format(MakeRecipe(<<"D">>, << <<"b">> >>, 0))) ELSE None]

\* one request before its health check, its text and source URL drawn from
\* the sets given
InitRequest(texts, urls) ==
    /\ vault = InitialVault
    /\ tmp = [p \in Procs |-> None]
    /\ clock = 0
    /\ pc = [p \in Procs |-> IF p = Req THEN "health" ELSE "idle"]
    /\ \E ow \in BOOLEAN, pv \in BOOLEAN :
          /\ overwrite = [p \in Procs |-> p = Req /\ ow]
          /\ preview_only = [p \in Procs |-> p = Req /\ pv]
    /\ recipe = [p \in Procs |-> None]
    /\ is_duplicate = [p \in Procs |-> FALSE]
    /\ duplicate_ingredients_match = [p \in Procs |-> FALSE]
    /\ existing = [p \in Procs |-> None]
    /\ markdown = [p \in Procs |-> None]
    /\ result = [p \in Procs |-> NoResult]
    /\ last_replace = [f \in FileNames |-> None]
    /\ unlink_failed = [p \in Procs |-> FALSE]
    /\ fn_arg = None
    /\ fn_ret = None
    /\ input_text \in texts
    /\ source_url \in urls
    /\ processed_text = <<>>
    /\ llm_result = None
    /\ nutrition = None
    /\ llm_calls = <<>>
    /\ hc_pc = "probe"
    /\ attempt = 0
    /\ events = <<>>

\* the request of process_recipe(input_text, ...) without a source URL
InitExtract == InitRequest(ExtractTexts, {None})

\* the variables of the pipeline that extract leaves alone
pipevars == <<vault, tmp, overwrite, preview_only, is_duplicate, duplicate_ingredients_match,
              existing, markdown, last_replace, unlink_failed>>

\* the check of the input and the preprocessing (extractor.py 85-105)
ExtractPreprocess(p) ==
    /\ pc[p] = "extract"
    /\ IF Strip(input_text) = <<>>
       THEN Raise(p, "ValueError", "empty") /\ UNCHANGED processed_text
       ELSE /\ processed_text' = PreprocessText(input_text)
            /\ pc' = [pc EXCEPT ![p] = "generate"]
            /\ UNCHANGED result
    /\ UNCHANGED <<pipevars, fnvars, recipe, clock, input_text, source_url, llm_result, nutrition, llm_calls>>

\* what a call of generate can give (client.py 79-129): the endpoint is not
\* reached, times out or answers with an HTTP error; the text is empty or no
\* JSON; the JSON is no object; the JSON is an object with data; the JSON is
\* the schema of the request ("type": "object" and "properties")
Responses == {"unreachable", "invalid_json", "not_object", "object", "schema"}

\* the responses that make generate return a dict
Objects == {"object", "schema"}

\* one call of generate as the log of calls records it
Call(prompt, response) == [prompt |-> prompt, response |-> response]

\* the exception generate raises when it returns no object: ConnectionError
\* (client.py 118-129), ValueError (client.py 86-88 and 108-114), or the
\* AttributeError of parsed.keys() on a list, a number or a string (client.py 105)
GenerateError(response) ==
    CASE response = "unreachable" -> "ConnectionError"
      [] response = "invalid_json" -> "ValueError"
      [] response = "not_object" -> "AttributeError"

\* except clauses that wrap every exception (extractor.py 284-286 dropped)
ExtractRaisesWrappingAll(p, error) ==
    Raise(p, "ValueError", "extract")

\* the except clauses of extract (extractor.py 284-289): a ConnectionError is
\* re-raised, a KeyError, TypeError or ValueError becomes a ValueError, any
\* other exception leaves extract as it is
ExtractRaises(p, error) ==
    IF error = "ConnectionError" THEN Raise(p, "ConnectionError", "llm")
    ELSE IF error \in {"KeyError", "TypeError", "ValueError"} THEN Raise(p, "ValueError", "extract")
    ELSE Raise(p, error, "uncaught")

\* a call of generate in extract that goes on with an empty draft, and so with
\* the fallbacks, when the text returned is no JSON
ExtractGenerateWithFallback(p) ==
    /\ pc[p] = "generate"
    /\ \E response \in Responses :
          /\ llm_calls' = Append(llm_calls, Call("extraction", response))
          /\ IF response \in Objects \cup {"invalid_json"}
             THEN /\ \E d \in {x \in Drafts : x.is_schema = (response = "schema")} :
                        llm_result' = Some(IF response \in Objects THEN d ELSE EmptyDraft)
                  /\ pc' = [pc EXCEPT ![p] = "validate"]
                  /\ UNCHANGED result
             ELSE /\ ExtractRaises(p, GenerateError(response))
                  /\ UNCHANGED llm_result
    /\ UNCHANGED <<pipevars, fnvars, recipe, clock, input_text, source_url, processed_text, nutrition>>

\* llm_client.generate(prompt, schema=RECIPE_SCHEMA) (extractor.py 108-112)
ExtractGenerate(p) ==
    /\ pc[p] = "generate"
    /\ \E response \in Responses :
          /\ llm_calls' = Append(llm_calls, Call("extraction", response))
          /\ IF response \in Objects
             THEN /\ \E d \in {x \in Drafts : x.is_schema = (response = "schema")} :
                        llm_result' = Some(d)
                  /\ pc' = [pc EXCEPT ![p] = "validate"]
                  /\ UNCHANGED result
             ELSE /\ ExtractRaises(p, GenerateError(response))
                  /\ UNCHANGED llm_result
    /\ UNCHANGED <<pipevars, fnvars, recipe, clock, input_text, source_url, processed_text, nutrition>>

\* the response after the schema check (extractor.py 114-121)
Parsed(text, response) ==
    IF response.is_schema THEN ExtractFallback(text, response) ELSE response

\* the choice of the nutrition values that calls calculate_nutrition in
\* every case (extractor.py 188 dropped)
ChooseNutritionAlwaysCalculates(p, r) ==
    /\ llm_result' = Some(r)
    /\ pc' = [pc EXCEPT ![p] = "calculate"]
    /\ UNCHANGED <<result, nutrition>>

\* the choice of the nutrition values (extractor.py 166-234) for the result
\* r: the values of the response when all four are there (a string among them
\* fails in the format of the log line, extractor.py 198-204), else
\* calculate_nutrition is to be called
ChooseNutrition(p, r) ==
    /\ llm_result' = Some(r)
    /\ IF \A k \in NutritionKeys : r[k] # None
       THEN IF \A k \in NutritionKeys : r[k][1].kind = "num"
            THEN /\ nutrition' = Some(NutritionOf(r))
                 /\ pc' = [pc EXCEPT ![p] = "assemble"]
                 /\ UNCHANGED result
            ELSE ExtractRaises(p, "ValueError") /\ UNCHANGED nutrition
       ELSE /\ pc' = [pc EXCEPT ![p] = "calculate"]
            /\ UNCHANGED <<result, nutrition>>

\* the schema check, the fallbacks of the required fields and the choice of
\* the nutrition values (extractor.py 114-210)
ExtractValidate(p) ==
    /\ pc[p] = "validate"
    /\ ChooseNutrition(p, WithRequiredFields(processed_text,
                                             Parsed(processed_text, llm_result[1])))
    /\ UNCHANGED <<pipevars, fnvars, recipe, clock, input_text, source_url, processed_text, llm_calls>>

\* the floats of a nutrition response, the defaults when a key is missing
\* or a value is no number (extractor.py 321-337)
CalculatedNutrition(response) ==
    IF \A k \in NutritionKeys : IsFloat(response[k])
    THEN NutritionOf(response) ELSE ZeroNutrition

\* calculate_nutrition that calls generate once more when the call failed
CalculateNutritionRetrying(p) ==
    /\ pc[p] = "calculate"
    /\ \E response \in Responses :
          /\ llm_calls' = Append(llm_calls, Call("nutrition", response))
          /\ IF response = "object"
             THEN /\ \E r \in NutritionResponses : nutrition' = Some(CalculatedNutrition(r))
                  /\ pc' = [pc EXCEPT ![p] = "assemble"]
                  /\ UNCHANGED result
             ELSE IF response = "schema"
             THEN /\ nutrition' = Some(CalculatedNutrition([k \in NutritionKeys |-> None]))
                  /\ pc' = [pc EXCEPT ![p] = "assemble"]
                  /\ UNCHANGED result
             ELSE IF Len(llm_calls) < 2
             THEN UNCHANGED <<pc, result, nutrition>>
             ELSE IF GenerateError(response) \in {"KeyError", "TypeError", "ValueError"}
             THEN /\ nutrition' = Some(ZeroNutrition)
                  /\ pc' = [pc EXCEPT ![p] = "assemble"]
                  /\ UNCHANGED result
             ELSE /\ ExtractRaises(p, GenerateError(response))
                  /\ UNCHANGED nutrition
    /\ UNCHANGED <<pipevars, fnvars, recipe, clock, input_text, source_url, processed_text, llm_result>>

\* calculate_nutrition (extractor.py 231-234 and 291-337): an echo of the
\* schema has none of the four keys; a KeyError,
\* TypeError or ValueError gives the defaults (extractor.py 329-337), any
\* other exception of generate leaves calculate_nutrition
CalculateNutrition(p) ==
    /\ pc[p] = "calculate"
    /\ \E response \in Responses :
          /\ llm_calls' = Append(llm_calls, Call("nutrition", response))
          /\ IF response = "object"
             THEN /\ \E r \in NutritionResponses : nutrition' = Some(CalculatedNutrition(r))
                  /\ pc' = [pc EXCEPT ![p] = "assemble"]
                  /\ UNCHANGED result
             ELSE IF response = "schema"
             THEN /\ nutrition' = Some(CalculatedNutrition([k \in NutritionKeys |-> None]))
                  /\ pc' = [pc EXCEPT ![p] = "assemble"]
                  /\ UNCHANGED result
             ELSE IF GenerateError(response) \in {"KeyError", "TypeError", "ValueError"}
             THEN /\ nutrition' = Some(ZeroNutrition)
                  /\ pc' = [pc EXCEPT ![p] = "assemble"]
                  /\ UNCHANGED result
             ELSE /\ ExtractRaises(p, GenerateError(response))
                  /\ UNCHANGED nutrition
    /\ UNCHANGED <<pipevars, fnvars, recipe, clock, input_text, source_url, processed_text, llm_result>>

\* the index of the first c in s, 0 when there is none
Find(s, c) == IF \E i \in 1..Len(s) : s[i] = c
              THEN CHOOSE i \in 1..Len(s) : s[i] = c /\ \A k \in 1..(i - 1) : s[k] # c
              ELSE 0

\* the scheme of a URL text, lower case; empty when the text has none
SchemeOf(s) ==
    IF Find(s, ":") > 1 /\ \A i \in 1..(Find(s, ":") - 1) : s[i] \in Letters
    THEN Lower(SubSeq(s, 1, Find(s, ":") - 1)) ELSE <<>>

\* what follows "scheme://", empty when the text has no such start
AfterScheme(s) ==
    IF SchemeOf(s) # <<>> /\ SubSeq(s, Find(s, ":") + 1, Find(s, ":") + 2) = <<"/", "/">>
    THEN From(s, Find(s, ":") + 3) ELSE <<>>

\* host and path of what follows "scheme://"
HostOf(rest) == IF Find(rest, "/") = 0 THEN rest ELSE SubSeq(rest, 1, Find(rest, "/") - 1)
PathOf(rest) == IF Find(rest, "/") = 0 THEN <<"/">> ELSE From(rest, Find(rest, "/"))

\* the text parses as a URL "scheme://host[/path]"
IsUrl(s) == HostOf(AfterScheme(s)) # <<>>

\* str(url): scheme and host in lower case, "/" for an empty path
UrlString(s) ==
    SchemeOf(s) \o <<":", "/", "/">> \o Lower(HostOf(AfterScheme(s))) \o PathOf(AfterScheme(s))

HttpSchemes == {<<"h", "t", "t", "p">>, <<"h", "t", "t", "p", "s">>}

\* one outcome of the conversion of source_url: the url passed to
\* RecipeMetadata and whether RecipeMetadata accepts it
UrlOutcome(url, accepted) == [url |-> url, accepted |-> accepted]

\* the conversion of source_url (extractor.py 246-253) and the validation of
\* the url field (models/recipe.py 25).  None and "" are not converted; a text
\* that is no URL makes HttpUrl(...) raise, which is caught; an http or https
\* URL is stored.  A URL of another scheme is refused either by HttpUrl(...),
\* and then dropped, or only by the url field of RecipeMetadata, and then the
\* ValidationError leaves the try block: which of the two depends on the
\* pydantic release, so both are outcomes.
HttpUrl(source) ==
    IF source = None \/ source[1] = <<>> \/ ~IsUrl(source[1])
    THEN {UrlOutcome(None, TRUE)}
    ELSE IF SchemeOf(source[1]) \in HttpSchemes
    THEN {UrlOutcome(Some(UrlString(source[1])), TRUE)}
    ELSE {UrlOutcome(None, TRUE), UrlOutcome(None, FALSE)}

\* the Recipe of the result r with nutrition n and the url given
RecipeWith(r, n, now, url) == [AssembleRecipe(r, n, now) EXCEPT !.url = url]

\* an assembly that keeps each value the draft holds and takes only the
\* missing ones from the calculation
ExtractAssembleKeepingDraft(p) ==
    /\ pc[p] = "assemble"
    /\ \E u \in HttpUrl(source_url) :
          recipe' = [recipe EXCEPT
                       ![p] = Some(RecipeWith(
                                  llm_result[1],
                                  [k \in NutritionKeys |->
                                     IF llm_result[1][k] # None /\ llm_result[1][k][1].v >= 0
                                     THEN llm_result[1][k][1].v ELSE nutrition[1][k]],
                                  clock + 1, u.url))]
    /\ clock' = clock + 1
    /\ pc' = [pc EXCEPT ![p] = "check"]
    /\ UNCHANGED result
    /\ UNCHANGED <<pipevars, fnvars, exvars>>

\* an assembly whose models accept any number (models/recipe.py ge=0 and ge=1
\* dropped)
ExtractAssembleUnvalidated(p) ==
    /\ pc[p] = "assemble"
    /\ \E u \in HttpUrl(source_url) :
          recipe' = [recipe EXCEPT
                       ![p] = Some(RecipeWith(llm_result[1], nutrition[1], clock + 1, u.url))]
    /\ clock' = clock + 1
    /\ pc' = [pc EXCEPT ![p] = "check"]
    /\ UNCHANGED result
    /\ UNCHANGED <<pipevars, fnvars, exvars>>

\* an assembly that lets the exception of HttpUrl(source_url) leave the try
\* block (extractor.py 249 and 252-253 dropped)
ExtractAssembleStrictUrl(p) ==
    /\ pc[p] = "assemble"
    /\ \E u \in HttpUrl(source_url) :
          IF \/ \E k \in NutritionKeys : nutrition[1][k] < 0
             \/ ServingsOf(llm_result[1]) < 1
             \/ ~u.accepted
             \/ (source_url # None /\ source_url[1] # <<>> /\ u.url = None)
          THEN ExtractRaises(p, "ValueError") /\ UNCHANGED <<recipe, clock>>
          ELSE /\ recipe' = [recipe EXCEPT
                               ![p] = Some(RecipeWith(llm_result[1], nutrition[1],
                                                      clock + 1, u.url))]
               /\ clock' = clock + 1
               /\ pc' = [pc EXCEPT ![p] = "check"]
               /\ UNCHANGED result
    /\ UNCHANGED <<pipevars, fnvars, exvars>>

\* the conversion of source_url, RecipeMetadata(...), MacroNutrients(...) and
\* Recipe(...) (extractor.py 246-282): the models reject a negative value and
\* servings below 1 (models/recipe.py 11-13, 27-31) and a url they do not
\* accept with a ValidationError, a ValueError that extractor.py 287-289 wraps
ExtractAssemble(p) ==
    /\ pc[p] = "assemble"
    /\ \E u \in HttpUrl(source_url) :
          IF \/ \E k \in NutritionKeys : nutrition[1][k] < 0
             \/ ServingsOf(llm_result[1]) < 1
             \/ ~u.accepted
          THEN ExtractRaises(p, "ValueError") /\ UNCHANGED <<recipe, clock>>
          ELSE /\ recipe' = [recipe EXCEPT
                               ![p] = Some(RecipeWith(llm_result[1], nutrition[1],
                                                      clock + 1, u.url))]
               /\ clock' = clock + 1
               /\ pc' = [pc EXCEPT ![p] = "check"]
               /\ UNCHANGED result
    /\ UNCHANGED <<pipevars, fnvars, exvars>>

NextExtract ==
    \E p \in {Req} :
        \/ HealthCheck(p)
        \/ ExtractPreprocess(p)
        \/ ExtractGenerate(p)
        \/ ExtractValidate(p)
        \/ CalculateNutrition(p)
        \/ ExtractAssemble(p)
        \/ CheckDuplicate(p)
        \/ ReadExisting(p)
        \/ WriteCheck(p)
        \/ MkStemp(p)
        \/ WriteTemp(p)
        \/ Flush(p)
        \/ Replace(p)
        \/ Cleanup(p)

SpecExtract == InitExtract /\ [][NextExtract]_vars

\*   None                   no source URL
\*   ''                     the empty string
\*   'not a valid url'      no URL
\*   'http://'              a scheme without a host
\*   'https://a/p'          an https URL
\*   'HTTP://A'             an http URL in upper case and without a path
\*   'ftp://a/'             a URL of another scheme
\* the source URLs drawn
SourceUrls ==
    {None,
     Some(<<>>),
     Some(<<"n", "o", "t", " ", "a", " ", "v", "a", "l", "i", "d", " ", "u", "r", "l">>),
     Some(<<"h", "t", "t", "p", ":", "/", "/">>),
     Some(<<"h", "t", "t", "p", "s", ":", "/", "/", "a", "/", "p">>),
     Some(<<"H", "T", "T", "P", ":", "/", "/", "A">>),
     Some(<<"f", "t", "p", ":", "/", "/", "a", "/">>)}

\* the text of the requests with a source URL: 'Dal\n1 cup dal'
UrlTexts == {<<"D", "a", "l", "\n", "1", " ", "c", "u", "p", " ", "d", "a", "l">>}

\* the request of process_recipe(input_text, ..., source_url=...)
InitUrl == InitRequest(UrlTexts, SourceUrls)

SpecUrl == InitUrl /\ [][NextExtract]_vars

(***************************************************************************)
(* Format, then parse: MarkdownFormatter.format followed by                *)
(* _extract_ingredients_from_markdown, on recipes drawn from a bounded set *)
(***************************************************************************)

\* longest ingredient list and longest ingredient string drawn
MaxIngredients == 2
MaxIngredientLen == 2

\* the characters of the ingredient strings drawn
IngredientChars == {"a", " ", "\n"}

\* all sequences over set S of length at most n
SeqsUpTo(S, n) == UNION {[1..k -> S] : k \in 0..n}

\* the recipes drawn
RoundTripRecipes ==
    {MakeRecipe(<<"D">>, ings, 1) :
        ings \in SeqsUpTo(SeqsUpTo(IngredientChars, MaxIngredientLen), MaxIngredients)}

InitRoundTrip ==
    /\ InitPipeline
    /\ fn_arg \in RoundTripRecipes
    /\ fn_ret = None

\* formatter.format(recipe), then _extract_ingredients_from_markdown(text)
FormatAndParse ==
    /\ fn_ret = None
    /\ fn_ret' = Some(ExtractIngredientsFromMarkdown(Format(fn_arg)))
    /\ UNCHANGED <<vault, tmp, clock, pc, overwrite, preview_only, recipe, is_duplicate,
                   duplicate_ingredients_match, existing, markdown, result, last_replace,
                   unlink_failed, fn_arg, exvars, hcvars>>

NextRoundTrip == FormatAndParse

SpecRoundTrip == InitRoundTrip /\ [][NextRoundTrip]_vars

\* C10 (as claimed): parsing the Ingredients section of the rendered document
\* returns the recipe's ingredient list, element for element, in order.
C10_IngredientRoundTrip ==
    fn_ret # None => fn_ret[1] = fn_arg.ingredients

(***************************************************************************)
(* _compare_ingredients on pairs of ingredient lists drawn from a bounded  *)
(* set                                                                     *)
(***************************************************************************)

\* longest ingredient list compared
MaxListLen == 3

\* the ingredient strings compared: two spellings of one normalized string,
\* another string, and the empty string
CompareStrings == {<<"a">>, <<"A", " ">>, <<"b">>, <<>>}

CompareLists == SeqsUpTo(CompareStrings, MaxListLen)

InitCompare ==
    /\ InitPipeline
    /\ fn_arg \in [a : CompareLists, b : CompareLists]
    /\ fn_ret = None

\* _compare_ingredients(a, b)
Compare ==
    /\ fn_ret = None
    /\ fn_ret' = Some(CompareIngredients(fn_arg.a, fn_arg.b))
    /\ UNCHANGED <<vault, tmp, clock, pc, overwrite, preview_only, recipe, is_duplicate,
                   duplicate_ingredients_match, existing, markdown, result, last_replace,
                   unlink_failed, fn_arg, exvars, hcvars>>

NextCompare == Compare

SpecCompare == InitCompare /\ [][NextCompare]_vars

(***************************************************************************)
(* _sanitize_filename on titles drawn from a bounded set: a run of letters *)
(* around max_length between two short pads of other characters            *)
(***************************************************************************)

\* longest pad before and after the run of letters
MaxPad == 2

\* the characters of the pads: whitespace, a removed character, a letter
PadChars == {" ", "\t", "*", "b"}

\* the lengths of the run of letters
RunLengths == {0, max_length - 1, max_length}

\* c repeated n times
Rep(c, n) == [i \in 1..n |-> c]

SanitizeTitles ==
    {pre \o Rep("a", n) \o post :
        pre \in SeqsUpTo(PadChars, MaxPad), n \in RunLengths, post \in SeqsUpTo(PadChars, MaxPad)}

InitSanitize ==
    /\ InitPipeline
    /\ fn_arg \in SanitizeTitles
    /\ fn_ret = None

\* _sanitize_filename(title)
Sanitize ==
    /\ fn_ret = None
    /\ fn_ret' = Some(SanitizeFilename(fn_arg))
    /\ UNCHANGED <<vault, tmp, clock, pc, overwrite, preview_only, recipe, is_duplicate,
                   duplicate_ingredients_match, existing, markdown, result, last_replace,
                   unlink_failed, fn_arg, exvars, hcvars>>

NextSanitize == Sanitize

SpecSanitize == InitSanitize /\ [][NextSanitize]_vars

(***************************************************************************)
(* Properties of the pipeline                                              *)
(***************************************************************************)

\* request p takes a step
Steps(p) == pc'[p] # pc[p]

\* the multiset of normalized strings of an ingredient list, by counting
Occurrences(l, x) == Cardinality({i \in 1..Len(l) : Strip(Lower(l[i])) = x})
SameMultiset(a, b) ==
    \A x \in {Strip(Lower(a[i])) : i \in 1..Len(a)} \cup {Strip(Lower(b[i])) : i \in 1..Len(b)} :
        Occurrences(a, x) = Occurrences(b, x)

\* every document some request can render
AllDocs ==
    {Format(MakeRecipe(t, ings, k)) : t \in Titles, ings \in IngredientLists, k \in 1..MaxRequests}

\* request p found a document under its title, without overwrite or preview
Blocked(p) == is_duplicate[p] /\ ~preview_only[p] /\ ~overwrite[p]

\* C1: a request with preview_only = false and overwrite = false that finds a
\* document under its sanitized title at the duplicate check ends in
\* FileExistsError ("already exists"), and none of its steps changes a document.
C1_DuplicateRaises ==
    /\ [][\A p \in Procs :
            (pc[p] = "check" /\ Steps(p) /\ ~preview_only[p] /\ ~overwrite[p]
               /\ vault[SanitizeFilename(recipe[p][1].title) \o <<".md">>] # None)
            => Blocked(p)']_vars
    /\ [](\A p \in Procs :
            Blocked(p) =>
               /\ pc[p] \in {"read", "failed"}
               /\ pc[p] = "failed" =>
                     result[p].status = "FileExistsError" /\ result[p].detail = "exists")
    /\ [][\A p \in Procs : (Blocked(p) /\ Steps(p)) => vault' = vault]_vars

\* C1 witness: a blocked request has failed with FileExistsError
C1_Witness ==
    \E p \in Procs :
        Blocked(p) /\ pc[p] = "failed" /\ result[p].status = "FileExistsError"

\* C2: a request with preview_only = false and overwrite = true whose
\* ingredients differ, as multisets of normalized strings, from those parsed
\* from the existing document ends in FileExistsError ("different
\* ingredients"); it changes no document and creates no temp file.
C2_MismatchRaises ==
    /\ [][\A p \in Procs :
            (pc[p] = "read" /\ Steps(p) /\ ~preview_only[p] /\ overwrite[p]
               /\ vault[Existing(p)] # None
               /\ ~SameMultiset(recipe[p][1].ingredients,
                                ExtractIngredientsFromMarkdown(vault[Existing(p)][1])))
            => /\ pc'[p] = "failed"
               /\ result'[p].status = "FileExistsError"
               /\ result'[p].detail = "mismatch"
               /\ vault' = vault
               /\ tmp' = tmp]_vars
    /\ [](\A p \in Procs : result[p].detail = "mismatch" => pc[p] = "failed" /\ tmp[p] = None)

\* C2 witness: an overwrite request was refused for differing ingredients
C2_Witness ==
    \E p \in Procs :
        /\ pc[p] = "failed" /\ result[p].detail = "mismatch" /\ overwrite[p]
        /\ existing[p] # None
        /\ ~SameMultiset(recipe[p][1].ingredients,
                         ExtractIngredientsFromMarkdown(existing[p][1]))

\* the text is the rendering of a recipe with this title and ingredient list
RenderingOf(text, title, ingredients) ==
    \E k \in 1..MaxRequests : text = Format(MakeRecipe(title, ingredients, k))

\* C3 (as claimed): an overwrite request (preview_only = false) whose recipe has
\* the title and the ingredient list of the recipe that was written before is
\* never refused, and when it is done the destination holds its markdown.
C3_SameIngredientsOverwrite ==
    \A p \in Procs :
        /\ (pc[p] = "failed" /\ overwrite[p] /\ ~preview_only[p] /\ existing[p] # None
              /\ RenderingOf(existing[p][1], recipe[p][1].title, recipe[p][1].ingredients))
           => result[p].status # "FileExistsError"
        /\ (pc[p] = "done" /\ overwrite[p] /\ ~preview_only[p] /\ last_replace[Dest(p)] = Some(p))
           => vault[Dest(p)] = markdown[p]

\* C4: with preview_only = true a request never raises FileExistsError, never
\* changes a document or creates a temp file, and returns is_duplicate equal to
\* the existence of the destination at the check and
\* duplicate_ingredients_match equal to the comparison with the document read
\* (False when there is none or it could not be read).
C4_PreviewReportsOnly ==
    /\ [](\A p \in Procs :
            preview_only[p] =>
               /\ result[p].status # "FileExistsError"
               /\ tmp[p] = None
               /\ pc[p] \in {"health", "extract", "check", "read", "done", "failed"}
               /\ pc[p] = "done" =>
                     /\ result[p].status = "ok"
                     /\ result[p].file_path = None
                     /\ result[p].is_duplicate = is_duplicate[p]
                     /\ result[p].duplicate_ingredients_match =
                           (/\ is_duplicate[p]
                            /\ existing[p] # None
                            /\ SameMultiset(recipe[p][1].ingredients,
                                            ExtractIngredientsFromMarkdown(existing[p][1]))))
    /\ [][\A p \in Procs :
            (preview_only[p] /\ Steps(p)) =>
               /\ vault' = vault
               /\ pc[p] = "check" =>
                     is_duplicate'[p] =
                        (vault[SanitizeFilename(recipe[p][1].title) \o <<".md">>] # None)
               /\ pc[p] = "read" => existing'[p] \in {None, vault[Existing(p)]}]_vars

\* C4 witness: a preview of a title that exists, with matching ingredients
C4_Witness ==
    \E p \in Procs :
        /\ preview_only[p] /\ pc[p] = "done"
        /\ result[p].is_duplicate /\ result[p].duplicate_ingredients_match

\* C5: the destination never holds a partial document: every document in the
\* vault, and every text a request has read from it, is a complete rendering.
C5_NoPartialDocument ==
    /\ \A f \in FileNames : vault[f] = None \/ vault[f][1] \in AllDocs
    /\ \A p \in Procs : existing[p] = None \/ existing[p][1] \in AllDocs

\* C5 witness: a temp file holds part of a document while the destination
\* holds the complete previous document
C5_Witness ==
    \E p \in Procs :
        /\ pc[p] = "flush" /\ tmp[p] # None /\ tmp[p] # markdown[p]
        /\ vault[Dest(p)] # None

\* request p completes its os.replace in this step
Renames(p) == pc[p] = "replace" /\ pc'[p] = "done"

\* C6 (as claimed): in every execution an existing document is replaced only by
\* a request with overwrite = true whose ingredient comparison against the
\* document being replaced succeeded.
C6_ReplaceOnlyAuthorized ==
    [][\A p \in Procs :
          (Renames(p) /\ vault[Dest(p)] # None)
          => /\ overwrite[p]
             /\ duplicate_ingredients_match[p]
             /\ existing[p] = vault[Dest(p)]]_vars

\* C6 (amended): a request with overwrite = false whose write finds the
\* destination present raises FileExistsError and writes nothing, and a request
\* replaces the document it read in its duplicate check only with
\* overwrite = true and a successful ingredient comparison against it.
C6_ReplaceExaminedOnlyAuthorized ==
    /\ [][\A p \in Procs :
            (pc[p] = "write_check" /\ Steps(p) /\ ~overwrite[p] /\ vault[Dest(p)] # None)
            => /\ pc'[p] = "failed"
               /\ result'[p].status = "FileExistsError"
               /\ vault' = vault
               /\ tmp' = tmp]_vars
    /\ [][\A p \in Procs :
            (Renames(p) /\ vault[Dest(p)] # None /\ existing[p] = vault[Dest(p)])
            => /\ overwrite[p]
               /\ duplicate_ingredients_match[p]
               /\ SameMultiset(recipe[p][1].ingredients,
                               ExtractIngredientsFromMarkdown(vault[Dest(p)][1]))]_vars

\* C6 witness: an authorized overwrite has replaced the document it compared
C6_Witness ==
    \E p \in Procs :
        /\ pc[p] = "done" /\ overwrite[p] /\ result[p].is_duplicate
        /\ result[p].duplicate_ingredients_match
        /\ existing[p] # None /\ vault[Dest(p)] = markdown[p]

\* request p has returned from a write to file f
Wrote(p, f) == pc[p] = "done" /\ result[p].status = "ok" /\ result[p].file_path = Some(f)

\* C7: two non-preview requests on the same title key can both pass the
\* duplicate check and both complete; when both are done the destination holds
\* exactly the document of the one whose rename came last.
C7_LastRenameWins ==
    \A p, q \in Procs : \A f \in FileNames :
        (p # q /\ Wrote(p, f) /\ Wrote(q, f))
        => /\ last_replace[f] \in {Some(p), Some(q)}
           /\ vault[f] = markdown[last_replace[f][1]]
           /\ vault[f][1] = Format(recipe[last_replace[f][1]][1])

\* C7 witness: both requests saw no duplicate, both wrote the same file
C7_Witness ==
    \E p, q \in Procs : \E f \in FileNames :
        /\ p # q /\ Wrote(p, f) /\ Wrote(q, f)
        /\ ~result[p].is_duplicate /\ ~result[q].is_duplicate
        /\ ~overwrite[p] /\ ~overwrite[q]
        /\ markdown[p] # markdown[q]

\* C8 (as claimed): after a write that failed past mkstemp has raised, no temp
\* file of that call remains.
C8_NoTempFileRemains ==
    \A p \in Procs :
        (pc[p] = "failed" /\ result[p].status = "OSError") => tmp[p] = None

\* C8 (amended): a failure of write, flush, fsync or rename leads to the cleanup,
\* which raises OSError and leaves every document as it was; the temp file is
\* gone afterwards unless os.unlink failed as well, and it is gone after every
\* write that returns.
C8_CleanupBestEffort ==
    /\ [][\A p \in Procs :
            (Steps(p) /\ pc'[p] \in {"cleanup", "failed"}) => vault' = vault]_vars
    /\ [][\A p \in Procs :
            (pc[p] = "cleanup" /\ Steps(p))
            => pc'[p] = "failed" /\ result'[p].status = "OSError"]_vars
    /\ [](\A p \in Procs :
            /\ tmp[p] # None => pc[p] \in {"write", "flush", "replace", "cleanup", "failed"}
            /\ (pc[p] = "failed" /\ ~unlink_failed[p]) => tmp[p] = None
            /\ pc[p] = "done" => tmp[p] = None)

\* C8 witness: a write failed after its temp file held text, and the temp file
\* was removed
C8_Witness ==
    \E p \in Procs :
        /\ pc[p] = "failed" /\ result[p].status = "OSError" /\ result[p].detail = "write"
        /\ ~unlink_failed[p] /\ tmp[p] = None /\ markdown[p] # None

\* number of documents in the vault
DocCount == Cardinality({f \in FileNames : vault[f] # None})

\* C9: after a successful write of title t1, check_duplicate(t2) is true for
\* every t2 that sanitizes to the same name; when that document is the only
\* one, it is false for every t2 with a different sanitized name.
C9_CollideIffSameSanitizedName ==
    \A p \in Procs :
        (pc[p] = "done" /\ result[p].file_path # None)
        => \A t2 \in QueryTitles :
              /\ SanitizeFilename(t2) = SanitizeFilename(recipe[p][1].title)
                 => CheckDuplicateOf(t2)
              /\ (SanitizeFilename(t2) # SanitizeFilename(recipe[p][1].title) /\ DocCount = 1)
                 => ~CheckDuplicateOf(t2)

\* C9 witness: "D*" was written and it is the only document
C9_Witness ==
    \E p \in Procs :
        /\ pc[p] = "done" /\ result[p].file_path # None
        /\ recipe[p][1].title = <<"D", "*">> /\ DocCount = 1

\* C11: _compare_ingredients(a, b) is true iff a and b hold the same
\* normalized (lowercased, trimmed) strings with the same multiplicities,
\* whatever the order of either list; it gives the same answer for (b, a) and
\* is true for (a, a).
C11_CompareIsMultisetEquality ==
    fn_ret # None =>
        /\ fn_ret[1] = SameMultiset(fn_arg.a, fn_arg.b)
        /\ fn_ret[1] = CompareIngredients(fn_arg.b, fn_arg.a)
        /\ CompareIngredients(fn_arg.a, fn_arg.a)

\* two lists of three in different orders and spellings compare equal
C11_Witness ==
    /\ fn_ret = Some(TRUE)
    /\ Len(fn_arg.a) = 3
    /\ fn_arg.a # fn_arg.b
    /\ fn_arg.a[1] # fn_arg.a[2]

\* C20: for every title, _sanitize_filename returns a name that is not empty,
\* is at most max_length long, holds none of the characters < > : " / \ | ? *,
\* neither starts nor ends with whitespace, holds no two whitespace characters
\* in a row, and is "untitled_recipe" when the title holds nothing but removed
\* characters and whitespace.
C20_SanitizedNameWellFormed ==
    fn_ret # None =>
        LET name == fn_ret[1]
        IN  /\ name # <<>>
            /\ Len(name) <= max_length
            /\ \A i \in 1..Len(name) : name[i] \notin InvalidChars
            /\ ~IsSpace(name[1]) /\ ~IsSpace(name[Len(name)])
            /\ \A i \in 1..(Len(name) - 1) : ~(IsSpace(name[i]) /\ IsSpace(name[i + 1]))
            /\ (\A i \in 1..Len(fn_arg) : fn_arg[i] \in InvalidChars \/ IsSpace(fn_arg[i]))
                  => name = <<"untitled_recipe">>

\* a title whose cleaned form is longer than max_length with whitespace at
\* the cut: the name is cut and trimmed again
C20_Witness ==
    /\ fn_ret # None
    /\ Len(Strip(CollapseSpaces(RemoveInvalid(fn_arg)))) > max_length
    /\ Len(fn_ret[1]) = max_length - 1

(***************************************************************************)
(* Properties of extract                                                   *)
(***************************************************************************)

\* C12: when the draft of the extraction call holds all four nutrition values,
\* generate has been called once, for the extraction, and never for the
\* nutrition; the Recipe assembled carries the four values of the draft.
C12_DraftNutritionUsedAsIs ==
    (llm_result # None /\ \A k \in NutritionKeys : llm_result[1][k] # None) =>
        /\ Len(llm_calls) = 1
        /\ llm_calls[1].prompt = "extraction"
        /\ llm_calls[1].response \in Objects
        /\ recipe[Req] # None =>
              /\ recipe[Req][1].calories_per_serving =
                    Some(Float(llm_result[1].calories_per_serving[1].v))
              /\ recipe[Req][1].macros =
                    Some(Float(llm_result[1].carbs_grams[1].v)
                         \o Float(llm_result[1].protein_grams[1].v)
                         \o Float(llm_result[1].fat_grams[1].v))

\* C12 witness: a request is done whose draft held 350/45/30/8 and whose
\* Recipe was assembled
C12_Witness ==
    /\ pc[Req] = "done"
    /\ recipe[Req] # None
    /\ llm_result # None
    /\ \A k \in NutritionKeys : llm_result[1][k] = FullNutrition[k]
    /\ recipe[Req][1].calories_per_serving = Some(<<"350">>)

\* the four nutrition values as a Recipe carries them
NutritionValues(n) ==
    [calories_per_serving |-> Some(Float(n.calories_per_serving)),
     macros |-> Some(Float(n.carbs_grams) \o Float(n.protein_grams) \o Float(n.fat_grams))]

\* the results calculate_nutrition can return
CalculatedNutritions == {CalculatedNutrition(response) : response \in NutritionResponses}
                        \cup {ZeroNutrition}

\* C13: the four nutrition values of an assembled Recipe have one source: they
\* are the four of the draft when the draft holds all four, and no nutrition
\* call was made; otherwise a nutrition call was made and they are the four
\* values calculate_nutrition returned, none of them a value of the draft.
C13_NutritionFromOneSource ==
    recipe[Req] # None =>
        IF \A k \in NutritionKeys : llm_result[1][k] # None
        THEN /\ Len(llm_calls) = 1
             /\ \A k \in {"calories_per_serving", "macros"} :
                   recipe[Req][1][k] = NutritionValues(NutritionOf(llm_result[1]))[k]
        ELSE /\ Len(llm_calls) = 2
             /\ llm_calls[2].prompt = "nutrition"
             /\ \E n \in CalculatedNutritions :
                   /\ n = nutrition[1]
                   /\ \A k \in {"calories_per_serving", "macros"} :
                         recipe[Req][1][k] = NutritionValues(n)[k]
             /\ \A k \in NutritionKeys :
                   llm_result[1][k] # None => nutrition[1][k] # llm_result[1][k][1].v

\* C13 witness: a request is done whose draft held one, two or three of the
\* four values, whose nutrition call answered 100/10/5/2 and whose Recipe
\* carries 100 calories
C13_Witness ==
    /\ pc[Req] = "done"
    /\ recipe[Req] # None
    /\ Cardinality({k \in NutritionKeys : llm_result[1][k] # None}) \in {1, 2, 3}
    /\ llm_calls = <<Call("extraction", "object"), Call("nutrition", "object")>>
    /\ recipe[Req][1].calories_per_serving = Some(<<"100">>)

\* C14 (as claimed): once the nutrition call has been issued extract raises
\* nothing, whatever the call gives; when the call fails or its text is no
\* JSON object the four values are 0.
C14_NutritionFailureNeverSurfaces ==
    (Len(llm_calls) = 2 /\ llm_calls[2].prompt = "nutrition") =>
        /\ ~(pc[Req] = "failed" /\ result[Req].detail \in {"llm", "extract", "uncaught"})
        /\ llm_calls[2].response # "object" => nutrition = Some(ZeroNutrition)

\* C15: when the endpoint is not reached in the extraction call, the request
\* has failed with ConnectionError; generate was called that once, no response
\* was parsed and no fallback applied, no Recipe exists and the vault is as it
\* was.
C15_ExtractionUnreachablePropagates ==
    (llm_calls # <<>> /\ llm_calls[1] = Call("extraction", "unreachable")) =>
        /\ pc[Req] = "failed"
        /\ result[Req].status = "ConnectionError"
        /\ Len(llm_calls) = 1
        /\ llm_result = None
        /\ nutrition = None
        /\ recipe[Req] = None
        /\ markdown[Req] = None
        /\ tmp[Req] = None
        /\ vault = InitialVault

\* C15 witness: the extraction call of a request with a text that is not blank
\* did not reach the endpoint
C15_Witness ==
    /\ llm_calls = <<Call("extraction", "unreachable")>>
    /\ Strip(input_text) # <<>>
    /\ pc[Req] = "failed"

\* C16: when the text of the extraction call is no JSON, the request has
\* failed with ValueError; no fallback was applied to the text, no nutrition
\* call was made, no Recipe and no document exist and the vault is as it was.
C16_InvalidJsonFails ==
    (llm_calls # <<>> /\ llm_calls[1] = Call("extraction", "invalid_json")) =>
        /\ pc[Req] = "failed"
        /\ result[Req].status = "ValueError"
        /\ result[Req].detail = "extract"
        /\ Len(llm_calls) = 1
        /\ llm_result = None
        /\ nutrition = None
        /\ recipe[Req] = None
        /\ markdown[Req] = None
        /\ tmp[Req] = None
        /\ vault = InitialVault

\* C16 witness: the extraction call of a request whose text has a title line
\* and a quantity line, which the fallbacks would find, returned no JSON
C16_Witness ==
    /\ llm_calls = <<Call("extraction", "invalid_json")>>
    /\ TitleFallback[processed_text] # None
    /\ IngredientsFallback[processed_text] # None
    /\ pc[Req] = "failed"

\* C17 (as claimed): when the extraction call returns an echo of the schema,
\* extract raises nothing; once the response is validated, title, ingredients
\* and instructions are what the fallbacks find in the preprocessed text, or
\* "Untitled Recipe" and empty lists.
C17_SchemaEchoNeverRaises ==
    (llm_calls # <<>> /\ llm_calls[1] = Call("extraction", "schema")) =>
        /\ ~(pc[Req] = "failed" /\ result[Req].detail \in {"llm", "extract", "uncaught"})
        /\ pc[Req] # "validate" =>
              /\ llm_result[1].title =
                    Required(None, TitleFallback[processed_text], UntitledRecipe)
              /\ llm_result[1].ingredients =
                    Required(None, IngredientsFallback[processed_text], <<>>)
              /\ llm_result[1].instructions =
                    Required(None, InstructionsFallback[processed_text], <<>>)

\* C18 (as claimed): a request whose text is blank ends in the error of the
\* empty input and in no other error, before any call of generate; a request
\* whose text is not blank never ends in that error.
C18_EmptyInputErrorIffBlank ==
    /\ (Strip(input_text) = <<>> /\ pc[Req] \in {"failed", "done"}) =>
          /\ pc[Req] = "failed"
          /\ result[Req].status = "ValueError"
          /\ result[Req].detail = "empty"
          /\ llm_calls = <<>>
    /\ Strip(input_text) # <<>> => result[Req].detail # "empty"

\* the title the fallbacks give a text: that of the first-line heuristic, else
\* that of the first pattern that yields one, else "Untitled Recipe"
ExpectedTitle(text) ==
    IF text # <<>> /\ FirstLineTitle(text) # None THEN FirstLineTitle(text)[1]
    ELSE IF text # <<>> /\ TitleFromPatterns(text, 1) # None THEN TitleFromPatterns(text, 1)[1]
    ELSE UntitledRecipe
ExpectedTitles == [t \in ProcessedTexts |-> ExpectedTitle(t)]

MaxRetries == 5

\* the delays drawn, in seconds: a negative one, which time.sleep rejects,
\* none, and the default
Delays == {-1, 0, 2}

HealthArgs == [retries : 0..MaxRetries, delay : Delays]

InitHealth ==
    /\ InitPipeline
    /\ fn_arg \in HealthArgs
    /\ fn_ret = None

\* the variables health_check leaves alone
nohcvars == <<vault, tmp, clock, pc, overwrite, preview_only, recipe, is_duplicate,
              duplicate_ingredients_match, existing, markdown, result, last_replace,
              unlink_failed, fn_arg, exvars>>

\* a probe that is followed by a sleep after the last attempt as well
\* (client.py 148 dropped)
HealthProbeAlwaysSleeping ==
    /\ fn_ret = None
    /\ hc_pc = "probe"
    /\ attempt < fn_arg.retries
    /\ \/ /\ events' = Append(events, "ok")
          /\ fn_ret' = Some("True")
          /\ hc_pc' = "returned"
          /\ UNCHANGED attempt
       \/ /\ events' = Append(events, "failed")
          /\ hc_pc' = "sleep"
          /\ UNCHANGED <<attempt, fn_ret>>
    /\ UNCHANGED nohcvars

\* one pass of the loop body up to the sleep (client.py 141-156):
\* requests.get(url, timeout=5) and raise_for_status(); return True when
\* they succeed; on any exception go on to sleep when attempts remain, else
\* to the next value of range(retries)
HealthProbe ==
    /\ fn_ret = None
    /\ hc_pc = "probe"
    /\ attempt < fn_arg.retries
    /\ \/ /\ events' = Append(events, "ok")
          /\ fn_ret' = Some("True")
          /\ hc_pc' = "returned"
          /\ UNCHANGED attempt
       \/ /\ events' = Append(events, "failed")
          /\ IF attempt < fn_arg.retries - 1
             THEN hc_pc' = "sleep" /\ UNCHANGED attempt
             ELSE hc_pc' = "probe" /\ attempt' = attempt + 1
          /\ UNCHANGED fn_ret
    /\ UNCHANGED nohcvars

\* time.sleep(delay) (client.py 152-154), then the next value of
\* range(retries); a negative delay makes time.sleep raise ValueError, inside
\* the except clause, so that health_check raises it
HealthSleep ==
    /\ fn_ret = None
    /\ hc_pc = "sleep"
    /\ IF fn_arg.delay < 0
       THEN /\ fn_ret' = Some("ValueError")
            /\ hc_pc' = "returned"
            /\ UNCHANGED <<attempt, events>>
       ELSE /\ events' = Append(events, "sleep")
            /\ attempt' = attempt + 1
            /\ hc_pc' = "probe"
            /\ UNCHANGED fn_ret
    /\ UNCHANGED nohcvars

\* range(retries) is exhausted: return False (client.py 157)
HealthReturnFalse ==
    /\ fn_ret = None
    /\ hc_pc = "probe"
    /\ attempt >= fn_arg.retries
    /\ fn_ret' = Some("False")
    /\ hc_pc' = "returned"
    /\ UNCHANGED <<attempt, events>>
    /\ UNCHANGED nohcvars

NextHealth ==
    \/ HealthProbe
    \/ HealthSleep
    \/ HealthReturnFalse

SpecHealth == InitHealth /\ [][NextHealth]_vars

\* each call of requests.get returns or raises within its timeout and each
\* sleep ends, so a step that can be taken is taken
SpecHealthLive == SpecHealth /\ WF_vars(NextHealth)

(***************************************************************************)
(* Properties of health_check                                              *)
(***************************************************************************)

\* the probes among the first n events
Probes(n) == {i \in 1..n : events[i] \in {"ok", "failed"}}

\* C21: health_check ends; it makes at most `retries` probes; it returns True
\* at the first probe that succeeds, which is its last event; it returns False
\* only when `retries` probes were made and all failed; a sleep comes only
\* after a failed probe and before another probe, never as the last event of a
\* call that has ended.
C21_HealthCheckTerminates ==
    /\ <>(fn_ret # None)
    /\ [](/\ Cardinality(Probes(Len(events))) <= fn_arg.retries
          /\ \A i \in 1..Len(events) :
                /\ events[i] = "ok" => i = Len(events) /\ fn_ret = Some("True")
                /\ events[i] = "sleep" =>
                      /\ i > 1 /\ events[i - 1] = "failed"
                      /\ Cardinality(Probes(i)) < fn_arg.retries
                      /\ i < Len(events) => events[i + 1] \in {"ok", "failed"}
                      /\ i = Len(events) => fn_ret = None
          /\ fn_ret = Some("True") => events # <<>> /\ events[Len(events)] = "ok"
          /\ fn_ret = Some("False") =>
                /\ Cardinality(Probes(Len(events))) = fn_arg.retries
                /\ \A i \in 1..Len(events) : events[i] # "ok")
    /\ [][fn_ret # None => events' = events]_vars

\* C21 witness: a call with the defaults, 3 retries and 2 s, has returned
\* False after three failed probes with a sleep after the first and the second
C21_Witness ==
    /\ fn_arg = [retries |-> 3, delay |-> 2]
    /\ fn_ret = Some("False")
    /\ events = <<"failed", "sleep", "failed", "sleep", "failed">>

(***************************************************************************)
(* MarkdownFormatter._format_frontmatter on recipes drawn from a bounded   *)
(* set: every optional field absent or present, the strings also empty,    *)
(* the numbers also zero                                                   *)
(***************************************************************************)

\* the values of an optional string field: None, "" and a text
OptionalStrings == {None, Some(<<>>), Some(<<"x">>)}

\* the values of calories_per_serving (ge=0): None, 0.0 and 350.0
OptionalCalories == {None, Some(Float(0)), Some(Float(350))}

\* the values of macros: None, 0/0/0 and 45/30/8
OptionalMacros ==
    {None, Some(Float(0) \o Float(0) \o Float(0)), Some(Float(45) \o Float(30) \o Float(8))}

\* the recipes drawn
FrontmatterRecipes ==
    {[MakeRecipe(<<"D">>, << <<"b">> >>, 1) EXCEPT
         !.prep_time = s[1], !.cook_time = s[2], !.cuisine = s[3], !.main_ingredient = s[4],
         !.url = u, !.servings = n, !.calories_per_serving = c, !.macros = m] :
        s \in [1..4 -> OptionalStrings],
        u \in {None, Some(<<"h", "t", "t", "p", ":", "/", "/", "a", "/">>)},
        n \in {None, Some(Float(4))},
        c \in OptionalCalories,
        m \in OptionalMacros}

InitFrontmatter ==
    /\ InitPipeline
    /\ fn_arg \in FrontmatterRecipes
    /\ fn_ret = None

\* formatter._format_frontmatter(recipe)
Frontmatter ==
    /\ fn_ret = None
    /\ fn_ret' = Some(FormatFrontmatter(fn_arg))
    /\ UNCHANGED <<vault, tmp, clock, pc, overwrite, preview_only, recipe, is_duplicate,
                   duplicate_ingredients_match, existing, markdown, result, last_replace,
                   unlink_failed, fn_arg, exvars, hcvars>>

NextFrontmatter == Frontmatter

SpecFrontmatter == InitFrontmatter /\ [][NextFrontmatter]_vars

\* the keys of a YAML mapping, in the order of its lines
KeysOf(lines) == [i \in 1..Len(lines) |-> lines[i][1]]
YamlKeys(text) == KeysOf(SelectSeq(SplitLines(text), LAMBDA l : l # <<>>))

\* the keys of the frontmatter in their fixed order
FrontmatterOrder ==
    <<"title", "prep_time", "cook_time", "cuisine", "url", "main_ingredient", "servings",
      "calories_per_serving", "macros", "created">>

\* C22 (as claimed): the keys of the rendered frontmatter are title, then the
\* optional keys whose value in the Recipe is not None, in the fixed order,
\* then created.
C22_OptionalKeyIffPresent ==
    fn_ret # None =>
        YamlKeys(fn_ret[1]) =
            SelectSeq(FrontmatterOrder,
                      LAMBDA k : k \in {"title", "created"} \/ fn_arg[k] # None)

\* the numbers a response can hold that are not negative
NonNegative ==
    {v \in {FullNutrition[k][1].v : k \in NutritionKeys}
           \cup {FullResponse[k][1].v : k \in NutritionKeys} \cup {0} : v >= 0}

\* C23: a Recipe that extract returned carries calories that are not negative
\* and macros with all of carbs, protein and fat, none negative, and the
\* document rendered from it is the rendering of that Recipe; when the
\* nutrition values taken from a response hold a negative number, no Recipe is
\* returned, nothing is rendered and the vault is as it was.
C23_NutritionNeverNegative ==
    /\ recipe[Req] # None =>
          /\ recipe[Req][1].calories_per_serving \in {Some(Float(v)) : v \in NonNegative}
          /\ recipe[Req][1].macros \in
                {Some(Float(c) \o Float(pr) \o Float(f)) : c, pr, f \in NonNegative}
          /\ markdown[Req] # None => markdown[Req] = Some(Format(recipe[Req][1]))
    /\ (nutrition # None /\ \E k \in NutritionKeys : nutrition[1][k] < 0) =>
          /\ recipe[Req] = None
          /\ markdown[Req] = None
          /\ tmp[Req] = None
          /\ vault = InitialVault
          /\ pc[Req] \in {"assemble", "failed"}
          /\ pc[Req] = "failed" => result[Req].status = "ValueError"

\* C23 witness: the nutrition call answered with -100 calories and the request
\* has failed without a Recipe
C23_Witness ==
    /\ pc[Req] = "failed"
    /\ Len(llm_calls) = 2
    /\ nutrition # None
    /\ nutrition[1].calories_per_serving = -100
    /\ recipe[Req] = None

(***************************************************************************)
(* Properties of extract with a source URL                                 *)
(***************************************************************************)

\* the source URLs drawn that are no URL: '', 'not a valid url', 'http://'
InvalidSourceUrls ==
    {Some(<<>>),
     Some(<<"n", "o", "t", " ", "a", " ", "v", "a", "l", "i", "d", " ", "u", "r", "l">>),
     Some(<<"h", "t", "t", "p", ":", "/", "/">>)}

\* the http and https URLs drawn, each with the text of the url stored for it:
\* 'https://a/p' as it is, 'HTTP://A' as 'http://a/'
ValidSourceUrls ==
    {<<Some(<<"h", "t", "t", "p", "s", ":", "/", "/", "a", "/", "p">>),
       <<"h", "t", "t", "p", "s", ":", "/", "/", "a", "/", "p">> >>,
     <<Some(<<"H", "T", "T", "P", ":", "/", "/", "A">>),
       <<"h", "t", "t", "p", ":", "/", "/", "a", "/">> >>}

\* the models reject the nutrition values or the servings of the result
ModelsReject ==
    (\E k \in NutritionKeys : nutrition[1][k] < 0) \/ ServingsOf(llm_result[1]) < 1

C25_AtMostTwoGenerateCalls ==
    /\ [](/\ Len(llm_calls) <= 2
          /\ llm_calls # <<>> => llm_calls[1].prompt = "extraction"
          /\ Len(llm_calls) = 2 =>
                /\ llm_calls[2].prompt = "nutrition"
                /\ llm_calls[1].response \in Objects
                /\ llm_result # None
                /\ \E k \in NutritionKeys : llm_result[1][k] = None
          /\ \A i \in 1..Len(llm_calls) :
                llm_calls[i].response \notin Objects => i = Len(llm_calls))
    /\ [][/\ pc[Req] \in {"failed", "done"} => llm_calls' = llm_calls
          /\ llm_calls' # llm_calls =>
                /\ Len(llm_calls') = Len(llm_calls) + 1
                /\ pc[Req] = (IF llm_calls = <<>> THEN "generate" ELSE "calculate")
                /\ pc'[Req] # pc[Req]]_vars

\* C25 witness: the extraction call returned an object and the nutrition call
\* did not reach the endpoint; the request has failed after these two calls
C25_Witness ==
    /\ llm_calls = <<Call("extraction", "object"), Call("nutrition", "unreachable")>>
    /\ pc[Req] = "failed"

(***************************************************************************)
(* Properties of the fallbacks of the required fields                      *)
(***************************************************************************)

\* what the fallback of a field finds in a text, and the default of the field
FallbackOf(field, text) ==
    CASE field = "title" -> TitleFallback[text]
      [] field = "ingredients" -> IngredientsFallback[text]
      [] field = "instructions" -> InstructionsFallback[text]
DefaultOf(field) == IF field = "title" THEN UntitledRecipe ELSE <<>>

\* the value validation gives a field of a response that did not hold it
FoundOrDefault(field, text) ==
    IF FallbackOf(field, text) # None THEN FallbackOf(field, text) ELSE Some(DefaultOf(field))

\* the value validation gives a field: the one of the response when that is
\* not missing or empty, else FoundOrDefault
KeptOrFound(opt, field, text) ==
    IF opt # None /\ opt[1] # <<>> THEN opt ELSE FoundOrDefault(field, text)

\* C26 (as claimed): validation decides each of title, ingredients and
\* instructions on its own: a value of the response that is not missing or
\* empty is kept, any other is replaced by what the fallback of that field
\* finds in the preprocessed text, or by "Untitled Recipe" or the empty list.
C26_FallbackPerField ==
    [][(pc[Req] = "validate" /\ pc'[Req] # "validate") =>
          \A field \in {"title", "ingredients", "instructions"} :
              llm_result'[1][field] =
                  KeptOrFound(llm_result[1][field], field, processed_text)]_vars

\* C26 (amended): when the response is no echo of the schema, validation
\* decides each of title, ingredients and instructions on its own: a value of
\* the response that is not missing or empty is kept, any other is replaced
\* by what the fallback of that field finds in the preprocessed text, or by
\* "Untitled Recipe" or the empty list; when the response is an echo of the
\* schema all three are replaced in that way, whatever the echo holds; a
\* missing or empty field raises nothing, and the Recipe assembled carries
\* the validated values.
C26_FallbackPerFieldUnlessEcho ==
    /\ [][(pc[Req] = "validate" /\ pc'[Req] # "validate") =>
             /\ \A field \in {"title", "ingredients", "instructions"} :
                   llm_result'[1][field] =
                      IF llm_result[1].is_schema
                      THEN FoundOrDefault(field, processed_text)
                      ELSE KeptOrFound(llm_result[1][field], field, processed_text)
             /\ (\A k \in NutritionKeys :
                    llm_result[1][k] = None \/ llm_result[1][k][1].kind = "num")
                => pc'[Req] \in {"assemble", "calculate"}]_vars
    /\ [](recipe[Req] # None =>
             /\ recipe[Req][1].title = llm_result[1].title[1]
             /\ recipe[Req][1].ingredients = llm_result[1].ingredients[1]
             /\ recipe[Req][1].instructions = llm_result[1].instructions[1])

\* C26 witness: a request is done whose Recipe has the ingredients of the
\* response, which no fallback finds in its text, and the instructions the
\* fallback found in the text, which differ from those the responses hold
C26_Witness ==
    /\ pc[Req] = "done"
    /\ recipe[Req] # None
    /\ recipe[Req][1].ingredients = << <<"b">> >>
    /\ IngredientsFallback[processed_text] \notin {None, Some(<< <<"b">> >>)}
    /\ InstructionsFallback[processed_text] # None
    /\ recipe[Req][1].instructions = InstructionsFallback[processed_text][1]
    /\ recipe[Req][1].instructions # << <<"s">> >>

(***************************************************************************)
(* Properties of the ProcessingResult                                      *)
(***************************************************************************)

\* C27: a call that returned has no file_path iff preview_only is true; with
\* preview_only false its file_path is the sanitized title with ".md", its
\* markdown is the rendering of its Recipe, and, unless another request has
\* renamed onto that path since, the document there is that markdown.
C27_FilePathIffNotPreview ==
    \A p \in Procs :
        (pc[p] = "done" /\ result[p].status = "ok") =>
            /\ (result[p].file_path = None) <=> preview_only[p]
            /\ markdown[p] = Some(Format(recipe[p][1]))
            /\ ~preview_only[p] =>
                  /\ result[p].file_path =
                        Some(SanitizeFilename(recipe[p][1].title) \o <<".md">>)
                  /\ last_replace[result[p].file_path[1]] = Some(p) =>
                        vault[result[p].file_path[1]] = markdown[p]

\* C27 witness: a call with preview_only false for the title "D*" has returned
\* the path "D.md", where its markdown is stored
C27_Witness ==
    \E p \in Procs :
        /\ pc[p] = "done"
        /\ ~preview_only[p]
        /\ recipe[p][1].title = <<"D", "*">>
        /\ result[p].file_path = Some(<<"D", ".md">>)
        /\ vault[<<"D", ".md">>] = markdown[p]

\* C28: in the result of a call that returned, duplicate_ingredients_match
\* implies is_duplicate; and with preview_only false, is_duplicate implies
\* that overwrite was true and that duplicate_ingredients_match is true.
C28_ResultFlagsConsistent ==
    \A p \in Procs :
        (pc[p] = "done" /\ result[p].status = "ok") =>
            /\ result[p].duplicate_ingredients_match => result[p].is_duplicate
            /\ (~preview_only[p] /\ result[p].is_duplicate) =>
                  overwrite[p] /\ result[p].duplicate_ingredients_match

\* C28 witness: a call with preview_only false and overwrite true has returned
\* with is_duplicate and duplicate_ingredients_match both true
C28_Witness ==
    \E p \in Procs :
        /\ pc[p] = "done"
        /\ result[p].status = "ok"
        /\ ~preview_only[p]
        /\ overwrite[p]
        /\ result[p].is_duplicate
        /\ result[p].duplicate_ingredients_match

(***************************************************************************)
(* Properties of a request that ends in an error                           *)
(***************************************************************************)

\* C29 (as claimed): when the request has ended in an error, every document
\* of the vault is as it was before the call and recipes_dir holds no file the
\* call added, its temp file included.
C29_ErrorLeavesCollection ==
    pc[Req] = "failed" =>
        /\ vault = InitialVault
        /\ tmp[Req] = None

\* C29 (amended): when the request has ended in an error, every document of
\* the vault is as it was before the call and none was added under a title;
\* the temp file of the call is gone too, unless the write failed and the
\* deletion of the temp file failed as well.
C29_ErrorLeavesDocuments ==
    pc[Req] = "failed" =>
        /\ vault = InitialVault
        /\ result[Req].status \in
              {"ConnectionError", "ValueError", "AttributeError", "FileExistsError", "OSError"}
        /\ tmp[Req] # None =>
              /\ unlink_failed[Req]
              /\ result[Req].status = "OSError"
              /\ result[Req].detail = "write"

\* C29 witness: the write of a request has failed after its temp file was
\* created; the temp file is deleted and the vault is as it was
C29_Witness ==
    /\ pc[Req] = "failed"
    /\ result[Req].status = "OSError"
    /\ result[Req].detail = "write"
    /\ ~unlink_failed[Req]
    /\ tmp[Req] = None
    /\ markdown[Req] # None
    /\ vault = InitialVault

(***************************************************************************)
(* Properties of the order of the stages                                   *)
(***************************************************************************)

\* the stages of process_recipe in the order of its code: the probe, extract
\* with its calls, the duplicate check, the write; an ended call comes last
StageOf(at) ==
    CASE at = "health" -> 0
      [] at \in {"extract", "generate", "validate", "calculate", "assemble"} -> 1
      [] at \in {"check", "read"} -> 2
      [] at \in {"write_check", "mkstemp", "write", "flush", "replace", "cleanup"} -> 3
      [] at \in {"done", "failed"} -> 4

\* C30: nothing happens before the probe has passed; when the probe reports
\* the service unreachable the request ends in ConnectionError without a
\* generate call, a duplicate check, a rendering or a file; generate is called
\* only during extract, the duplicate check runs only after extract, files are
\* touched only during the write, and a request never goes back to an earlier
\* stage.
C30_ProbeFirst ==
    /\ []((pc[Req] = "health" \/ result[Req].detail = "health") =>
             /\ llm_calls = <<>>
             /\ processed_text = <<>>
             /\ recipe[Req] = None
             /\ ~is_duplicate[Req]
             /\ existing[Req] = None
             /\ markdown[Req] = None
             /\ tmp[Req] = None
             /\ vault = InitialVault)
    /\ [](result[Req].detail = "health" =>
             pc[Req] = "failed" /\ result[Req].status = "ConnectionError")
    /\ [][/\ StageOf(pc'[Req]) >= StageOf(pc[Req])
          /\ pc[Req] = "health" => pc'[Req] \in {"health", "extract", "failed"}
          /\ llm_calls' # llm_calls => StageOf(pc[Req]) = 1
          /\ recipe' # recipe => StageOf(pc[Req]) = 1 /\ StageOf(pc'[Req]) = 2
          /\ (is_duplicate' # is_duplicate \/ existing' # existing) => StageOf(pc[Req]) = 2
          /\ (tmp' # tmp \/ vault' # vault) => StageOf(pc[Req]) = 3]_vars

\* C30 witness: the probe of a request with a text that is not blank reported
\* the service unreachable; the request has failed without a generate call
C30_Witness ==
    /\ pc[Req] = "failed"
    /\ result[Req].status = "ConnectionError"
    /\ result[Req].detail = "health"
    /\ Strip(input_text) # <<>>
    /\ llm_calls = <<>>
    /\ vault = InitialVault

====
